---- MODULE Spec2Model ----
(***************************************************************************)
(* CatchmentNet: the HTML -> Markdown conversion engine of                 *)
(* src/markdownHelper.ts, and the Gmail authorization and the Nostr sync   *)
(* of the plugin in src/main.ts and src/nostr.ts.                          *)
(*                                                                         *)
(* A string is a sequence of characters; a character is a one-character    *)
(* string ("a", " ", "\n"), a non-ASCII character is named by its code     *)
(* point ("U+2014").  A parsed document is the sequence of its nodes in    *)
(* document (pre-order) order, each node holding the index of its parent.  *)
(***************************************************************************)
EXTENDS Naturals, Sequences, FiniteSets

VARIABLES
    doc,        \* doc[c]: the tree DOMParser built for call c (markdownHelper.ts:18)
    pc,         \* pc[c]: where call c of convertHtmltoMarkdown stands
    markdown,   \* markdown[c]: the local markdown of htmlToMarkdown (line 20)
    out,        \* out[c]: the string convertHtmltoMarkdown returned
    fnIn,       \* the argument of the function under test
    fnOut,      \* what the function returned for fnIn
    fnOut2,     \* what it returned when applied to fnOut
    fnPc,       \* the position of the function harness
    \* the plugin of src/main.ts: Gmail authorization
    isMobile,                   \* Platform.isMobile
    unloaded,                   \* onunload has run
    authorizationInProgress,    \* main.ts:290
    authorizationPromise,       \* main.ts:291: the flow whose promise it holds, 0 for null
    mobileAuthResolver,         \* main.ts:293: the flow it resolves, 0 for null
    mobileAuthRejecter,         \* main.ts:294: the flow it rejects, 0 for null
    mobileAuthModal,            \* main.ts:295: the flow whose modal is open, 0 for null
    settings,                   \* pkce_verifier, pkce_state and access_token of this.settings
    flow,                       \* flow[f]: a call of _perform...Authorization and its promise
    caller,                     \* caller[c]: a call of initializeGoogleAuth
    handler,                    \* handler[h]: the callback handler awaiting a token exchange
    server_,                    \* main.ts:11: the flow whose HTTP server listens, 0 for none
    exchanged,                  \* the calls of exchangeCodeForTokens made by handleOAuthCallback
    \* the plugin of src/main.ts: Nostr sync
    nostrLastSyncTime,          \* settings.nostrLastSyncTime, 0 when unset
    clock,                      \* Math.floor(Date.now() / 1000)
    vault,                      \* the basenames of the files in the catchment folder
    run,                        \* the call of syncNostrArticles and its locals
    query,                      \* the call of getNostrData of that run
    article,                    \* article[a]: the call of processNostrArticle for event a
    creates                     \* creates[name]: the calls of app.vault.create in this run

convVars == <<doc, pc, markdown, out>>
fnVars == <<fnIn, fnOut, fnOut2, fnPc>>
authVars == <<isMobile, unloaded, authorizationInProgress, authorizationPromise,
              mobileAuthResolver, mobileAuthRejecter, mobileAuthModal, settings,
              flow, caller, handler, server_, exchanged>>
nostrVars == <<nostrLastSyncTime, clock, vault, run, query, article, creates>>
pluginVars == <<authVars, nostrVars>>
vars == <<convVars, fnVars, pluginVars>>

\* The plugin before onload: nothing of it runs while a conversion is checked.
AuthIdle ==
    /\ isMobile = FALSE
    /\ unloaded = FALSE
    /\ authorizationInProgress = FALSE
    /\ authorizationPromise = 0
    /\ mobileAuthResolver = 0
    /\ mobileAuthRejecter = 0
    /\ mobileAuthModal = 0
    /\ settings = <<>>
    /\ flow = <<>>
    /\ caller = <<>>
    /\ handler = <<>>
    /\ server_ = 0
    /\ exchanged = {}

NostrIdle ==
    /\ nostrLastSyncTime = 0
    /\ clock = 0
    /\ vault = {}
    /\ run = <<>>
    /\ query = <<>>
    /\ article = <<>>
    /\ creates = <<>>

PluginIdle == AuthIdle /\ NostrIdle

----------------------------------------------------------------------------
(* Characters and strings                                                  *)

\* JavaScript's \s and the characters String.prototype.trim strips.
WhiteSpace == {" ", "\t", "\n", "\r", "\f", "U+000B", "U+00A0", "U+2028", "U+2029"}

\* The characters before which a multiline $ matches, and that . refuses.
LineTerminators == {"\n", "\r", "U+2028", "U+2029"}

\* The backtick, named by its code point.
Backtick == "U+0060"

Min(S) == CHOOSE x \in S : \A y \in S : x <= y
Max(S) == CHOOSE x \in S : \A y \in S : x >= y

\* The length of the longest prefix of s[p..] made of characters of C.
RunLen(s, p, C) ==
    IF \A i \in p..Len(s) : s[i] \in C
    THEN (IF p > Len(s) THEN 0 ELSE Len(s) - p + 1)
    ELSE Min({i \in p..Len(s) : s[i] \notin C}) - p

\* The length of the longest suffix of s made of characters of C.
TailRunLen(s, C) ==
    IF \A i \in 1..Len(s) : s[i] \in C
    THEN Len(s)
    ELSE Len(s) - Max({i \in 1..Len(s) : s[i] \notin C})

AllIn(s, C) == \A i \in 1..Len(s) : s[i] \in C

\* String.prototype.trim
Trim(s) ==
    IF AllIn(s, WhiteSpace) THEN <<>>
    ELSE SubSeq(s, RunLen(s, 1, WhiteSpace) + 1, Len(s) - TailRunLen(s, WhiteSpace))

\* sub occurs in s at index i.
OccursAt(s, sub, i) ==
    /\ i >= 1
    /\ i + Len(sub) - 1 <= Len(s)
    /\ \A k \in 1..Len(sub) : s[i + k - 1] = sub[k]

\* String.prototype.includes
Includes(s, sub) == \E i \in 1..(Len(s) + 1) : OccursAt(s, sub, i)

\* String.prototype.indexOf, 1-based; 0 when sub does not occur.
IndexOf(s, sub) ==
    IF Includes(s, sub) THEN Min({i \in 1..(Len(s) + 1) : OccursAt(s, sub, i)}) ELSE 0

\* The number of places where sub occurs in s.
Occurrences(s, sub) == Cardinality({i \in 1..Len(s) : OccursAt(s, sub, i)})

RECURSIVE Flat(_)
\* The concatenation of a sequence of strings.
Flat(ss) == IF ss = <<>> THEN <<>> ELSE Head(ss) \o Flat(Tail(ss))

RECURSIVE Repeat(_, _)
\* String.prototype.repeat
Repeat(s, n) == IF n = 0 THEN <<>> ELSE s \o Repeat(s, n - 1)

RECURSIVE SplitOn(_, _)
\* String.prototype.split on one character.
SplitOn(s, c) ==
    IF \A i \in 1..Len(s) : s[i] # c THEN <<s>>
    ELSE LET k == Min({i \in 1..Len(s) : s[i] = c})
         IN  <<SubSeq(s, 1, k - 1)>> \o SplitOn(SubSeq(s, k + 1, Len(s)), c)

RECURSIVE JoinWith(_, _)
\* Array.prototype.join
JoinWith(ss, sep) ==
    IF ss = <<>> THEN <<>>
    ELSE IF Len(ss) = 1 THEN Head(ss)
    ELSE Head(ss) \o sep \o JoinWith(Tail(ss), sep)

\* Every string over alphabet A of length at most n.
StringsUpTo(A, n) == UNION {[1..k -> A] : k \in 0..n}

----------------------------------------------------------------------------
(* cleanMarkdown: five global regular-expression replacements and a trim   *)

\* A line starts at p: the multiline ^.
LineStart(s, p) == p = 1 \/ (p > 1 /\ p <= Len(s) + 1 /\ s[p - 1] \in LineTerminators)

\* A line ends before p: the multiline $.
LineEnd(s, p) == p = Len(s) + 1 \/ (p <= Len(s) /\ s[p] \in LineTerminators)

PunctBefore == {",", ".", "!", "?", ";", ":"}
BulletMarkers == {"-", "*", "+"}

\* The index of the last character of the match of regular expression k
\* that starts at p, 0 when none starts there.  Every match is non-empty.
\*   1: /\n{3,}/g               2: /\s+([,.!?;:])/g      3: /[ \t]+$/gm
\*   4: /^>\s*$/gm              5: /^(\s*[-*+]\s*)\s+/gm
MatchEnd(k, s, p) ==
    CASE k = 1 ->
           LET r == RunLen(s, p, {"\n"}) IN IF r >= 3 THEN p + r - 1 ELSE 0
      [] k = 2 ->
           LET r == RunLen(s, p, WhiteSpace)
           IN  IF r >= 1 /\ p + r <= Len(s) /\ s[p + r] \in PunctBefore
               THEN p + r ELSE 0
      [] k = 3 ->
           LET r == RunLen(s, p, {" ", "\t"})
           IN  IF r >= 1 /\ LineEnd(s, p + r) THEN p + r - 1 ELSE 0
      [] k = 4 ->
           \* the greedy \s* gives back characters until $ matches
           IF LineStart(s, p) /\ s[p] = ">"
           THEN LET r == RunLen(s, p + 1, WhiteSpace)
                    ends == {t \in 0..r : LineEnd(s, p + 1 + t)}
                IN  IF ends = {} THEN 0 ELSE p + Max(ends)
           ELSE 0
      [] k = 5 ->
           \* the first \s* takes the whole run before the marker; the second
           \* takes all of the run after it but the one character \s+ needs
           IF LineStart(s, p)
           THEN LET a == p + RunLen(s, p, WhiteSpace)
                    r == RunLen(s, a + 1, WhiteSpace)
                IN  IF a <= Len(s) /\ s[a] \in BulletMarkers /\ r >= 1
                    THEN a + r ELSE 0
           ELSE 0

\* What replaces the match s[p..e] of regular expression k.
Replacement(k, s, p, e) ==
    CASE k = 1 -> <<"\n", "\n">>
      [] k = 2 -> <<s[e]>>                  \* '$1': the punctuation character
      [] k = 3 -> <<>>
      [] k = 4 -> <<">">>
      [] k = 5 -> SubSeq(s, p, e - 1)       \* '$1': all but the last whitespace

RECURSIVE ReplaceFrom(_, _, _)
\* String.prototype.replace with a global regular expression, from index pos:
\* the leftmost match is replaced and the search goes on after it.
ReplaceFrom(k, s, pos) ==
    LET starts == {p \in pos..Len(s) : MatchEnd(k, s, p) > 0}
    IN  IF starts = {} THEN SubSeq(s, pos, Len(s))
        ELSE LET p == Min(starts)
                 e == MatchEnd(k, s, p)
             IN  SubSeq(s, pos, p - 1) \o Replacement(k, s, p, e)
                     \o ReplaceFrom(k, s, e + 1)

ReplaceAll(k, s) == ReplaceFrom(k, s, 1)

cleanMarkdown(md) ==
    Trim(ReplaceAll(5, ReplaceAll(4, ReplaceAll(3, ReplaceAll(2, ReplaceAll(1, md))))))

----------------------------------------------------------------------------
(* The parsed document                                                     *)

\* The null reference.  No string equals it: a string's elements are
\* characters.
Null == <<"NULL">>
\* No element: what querySelector returns when nothing matches.
NullEl == 0
\* What a string holds after a property of null was read: the TypeError
\* JavaScript throws there.  It survives every concatenation.
TypeError == <<"TYPE-ERROR">>
Threw(s) == \E i \in 1..Len(s) : s[i] = "TYPE-ERROR"

\* ${x} in a template literal.
Str(x) == IF x = Null THEN <<"n", "u", "l", "l">> ELSE x
\* A string in a condition: null and '' are false.
Truthy(x) == x # Null /\ x # <<>>

\* A tree as the parser builds it: an element, or a text or comment node.
El(tag, cls, attrs, kids) ==
    [tag |-> tag, cls |-> cls, attrs |-> attrs, text |-> <<>>, kids |-> kids]
Tx(s) == [tag |-> "#text", cls |-> {}, attrs |-> {}, text |-> s, kids |-> <<>>]
Comment(s) == [tag |-> "#comment", cls |-> {}, attrs |-> {}, text |-> s, kids |-> <<>>]

RECURSIVE AddNode(_, _, _), AddKids(_, _, _)
\* The nodes of a tree appended to acc in document order, each with the
\* index of its parent (0 for the root).
AddNode(acc, n, parent) ==
    AddKids(Append(acc, [tag |-> n.tag, cls |-> n.cls, attrs |-> n.attrs,
                         text |-> n.text, parent |-> parent]),
            n.kids, Len(acc) + 1)
AddKids(acc, kids, parent) ==
    IF kids = <<>> THEN acc
    ELSE AddKids(AddNode(acc, Head(kids), parent), Tail(kids), parent)

\* DOMParser.parseFromString: the document, rooted at its body (node 1).
Document(bodyKids) == AddNode(<<>>, El("body", {}, {}, bodyKids), 0)

IsElement(d, i) == d[i].tag \notin {"#text", "#comment"}
Elements(d) == {i \in 1..Len(d) : IsElement(d, i)}

RECURSIVE IsAncestor(_, _, _)
\* a is a strict ancestor of i.
IsAncestor(d, a, i) ==
    LET p == d[i].parent
    IN  p # 0 /\ (p = a \/ IsAncestor(d, a, p))

\* Node.contains: a is i or an ancestor of i.
Contains(d, a, i) == a = i \/ IsAncestor(d, a, i)

\* The element descendants of root, root excluded.
Descendants(d, root) == {i \in Elements(d) : IsAncestor(d, root, i)}

RECURSIVE SortedSeq(_)
\* A NodeList: the elements of S in document order.
SortedSeq(S) == IF S = {} THEN <<>> ELSE <<Min(S)>> \o SortedSeq(S \ {Min(S)})

\* The first element of S in document order: what querySelector returns.
First(S) == IF S = {} THEN NullEl ELSE Min(S)

ChildNodes(d, i) == SortedSeq({j \in 1..Len(d) : d[j].parent = i})

RECURSIVE TextOf(_, _)
\* The text of the text nodes at and under i, in document order.
TextOf(d, i) ==
    IF d[i].tag = "#text" THEN d[i].text
    ELSE IF d[i].tag = "#comment" THEN <<>>
    ELSE LET kids == ChildNodes(d, i)
         IN  Flat([k \in 1..Len(kids) |-> TextOf(d, kids[k])])

\* Node.textContent; reading it off null throws.
textContent(d, i) == IF i = NullEl THEN TypeError ELSE TextOf(d, i)

\* Element.getAttribute: the value, or null; calling it on null throws.
getAttribute(d, i, name) ==
    IF i = NullEl THEN TypeError
    ELSE IF \E a \in d[i].attrs : a[1] = name
    THEN (CHOOSE a \in d[i].attrs : a[1] = name)[2]
    ELSE Null

HasClass(d, i, c) == c \in d[i].cls

\* Element.closest(selector) finds something: i or an ancestor is in S.
Closest(d, i, S) == \E a \in S : Contains(d, a, i)

\* Element.nextElementSibling
nextElementSibling(d, i) ==
    First({j \in Elements(d) : j > i /\ d[j].parent = d[i].parent})

----------------------------------------------------------------------------
(* processImage                                                            *)

Tracking == <<"t", "r", "a", "c", "k", "i", "n", "g">>

\* processImage with the title part whatever the title.
processImageTitleAlways(d, img) ==
    LET src == getAttribute(d, img, "src")
        alt == IF Truthy(getAttribute(d, img, "alt")) THEN getAttribute(d, img, "alt") ELSE <<>>
        title == IF Truthy(getAttribute(d, img, "title")) THEN getAttribute(d, img, "title") ELSE <<>>
    IN  IF \/ ~Truthy(src)
           \/ Includes(src, Tracking)
           \/ getAttribute(d, img, "width") = <<"1">>
           \/ getAttribute(d, img, "height") = <<"1">>
        THEN <<>>
        ELSE <<"!", "[">> \o alt \o <<"]", "(">> \o src \o <<" ", "\"">> \o title \o <<"\"", ")">>

\* processImage without the test of height.
processImageAnyHeight(d, img) ==
    LET src == getAttribute(d, img, "src")
        alt == IF Truthy(getAttribute(d, img, "alt")) THEN getAttribute(d, img, "alt") ELSE <<>>
    IN  IF ~Truthy(src) \/ Includes(src, Tracking) \/ getAttribute(d, img, "width") = <<"1">>
        THEN <<>>
        ELSE <<"!", "[">> \o alt \o <<"]", "(">> \o src \o <<")">>

processImage(d, img) ==
    LET src == getAttribute(d, img, "src")
        alt == IF Truthy(getAttribute(d, img, "alt")) THEN getAttribute(d, img, "alt") ELSE <<>>
        title == IF Truthy(getAttribute(d, img, "title")) THEN getAttribute(d, img, "title") ELSE <<>>
    IN  IF \/ ~Truthy(src)
           \/ Includes(src, Tracking)
           \/ getAttribute(d, img, "width") = <<"1">>
           \/ getAttribute(d, img, "height") = <<"1">>
        THEN <<>>
        ELSE IF Truthy(title)
        THEN <<"!", "[">> \o alt \o <<"]", "(">> \o src \o <<" ", "\"">> \o title \o <<"\"", ")">>
        ELSE <<"!", "[">> \o alt \o <<"]", "(">> \o src \o <<")">>

----------------------------------------------------------------------------
(* handleEmphasisFormatting                                                *)

EmphasisPunct == {".", ",", "!", "?", ";", ":", "-", "U+2014", "U+2013"}

\* t matches (\s+|[.,!?;:\-...]+\s*|\s*[.,!?;:\-...]+|\s+[.,!?;:\-...]+\s*)$
\* as a whole: t is a run of whitespace, of punctuation, and of whitespace.
TrailingAlternative(t) ==
    LET a == RunLen(t, 1, WhiteSpace)
        b == RunLen(t, a + 1, EmphasisPunct)
        c == RunLen(t, a + b + 1, WhiteSpace)
    IN  \/ a >= 1 /\ a = Len(t)                         \* \s+
        \/ a = 0 /\ b >= 1 /\ b + c = Len(t)            \* [..]+\s*
        \/ b >= 1 /\ a + b = Len(t)                     \* \s*[..]+
        \/ a >= 1 /\ b >= 1 /\ a + b + c = Len(t)       \* \s+[..]+\s*

\* remaining.match(/^(.+?)(...)$/): the length of group 1, 0 when there is no
\* match.  The lazy .+? is the shortest prefix, free of line terminators,
\* that leaves a trailing alternative.
TrailingMatch(remaining) ==
    LET ks == {k \in 1..Len(remaining) :
                  /\ \A i \in 1..k : remaining[i] \notin LineTerminators
                  /\ TrailingAlternative(SubSeq(remaining, k + 1, Len(remaining)))}
    IN  IF ks = {} THEN 0 ELSE Min(ks)

leadingWhitespace(content) == SubSeq(content, 1, RunLen(content, 1, WhiteSpace))

\* The core before it is trimmed, and the trail.
coreContent(content) ==
    LET remaining == SubSeq(content, Len(leadingWhitespace(content)) + 1, Len(content))
        k == TrailingMatch(remaining)
    IN  IF k = 0 THEN remaining ELSE SubSeq(remaining, 1, k)

trailingContent(content) ==
    LET remaining == SubSeq(content, Len(leadingWhitespace(content)) + 1, Len(content))
        k == TrailingMatch(remaining)
    IN  IF k = 0 THEN <<>> ELSE SubSeq(remaining, k + 1, Len(remaining))

\* The content between two markers, as it is.
wrapAll(content, marker) == marker \o content \o marker

handleEmphasisFormatting(content, marker) ==
    LET core == Trim(coreContent(content))
    IN  IF core = <<>> \/ AllIn(core, EmphasisPunct \cup WhiteSpace)
        THEN content
        ELSE leadingWhitespace(content) \o marker \o core \o marker
                 \o trailingContent(content)

----------------------------------------------------------------------------
(* processInlineElementsSimple                                             *)

Unsubscribe == <<"u", "n", "s", "u", "b", "s", "c", "r", "i", "b", "e">>
AppLink == <<"s", "u", "b", "s", "t", "a", "c", "k", ".", "c", "o", "m", "/",
             "a", "p", "p", "-", "l", "i", "n", "k">>
RedirectAppStore == <<"r", "e", "d", "i", "r", "e", "c", "t", "=",
                      "a", "p", "p", "-", "s", "t", "o", "r", "e">>
ActionLike == <<"a", "c", "t", "i", "o", "n", "=", "l", "i", "k", "e">>
ActionShare == <<"a", "c", "t", "i", "o", "n", "=", "s", "h", "a", "r", "e">>
ActionComment == <<"a", "c", "t", "i", "o", "n", "=", "c", "o", "m", "m", "e", "n", "t">>
SubmitLike == <<"s", "u", "b", "m", "i", "t", "L", "i", "k", "e", "=", "t", "r", "u", "e">>

\* isInternalAppAction without the test of redirect=app-store.
isAppAction(href) ==
    /\ Includes(href, AppLink)
    /\ \/ Includes(href, ActionLike)
       \/ Includes(href, ActionShare)
       \/ Includes(href, ActionComment)
       \/ Includes(href, SubmitLike)

isInternalAppAction(href) ==
    /\ Includes(href, AppLink)
    /\ ~Includes(href, RedirectAppStore)
    /\ \/ Includes(href, ActionLike)
       \/ Includes(href, ActionShare)
       \/ Includes(href, ActionComment)
       \/ Includes(href, SubmitLike)

\* case 'a'
processAnchor(href, linkText) ==
    IF Truthy(href) /\ ~Includes(href, Unsubscribe)
    THEN IF isInternalAppAction(href)
         THEN linkText
         ELSE <<"[">> \o linkText \o <<"]", "(">> \o href \o <<")">>
    ELSE linkText

\* Bold adjusted the way emphasis is.
strongAdjusted(result) == handleEmphasisFormatting(result, <<"*", "*">>)

\* case 'strong', 'b': result is the rendering of the children
processStrong(result) == <<"*", "*">> \o result \o <<"*", "*">>

\* case 'em', 'i': result is the rendering of the children
processEmphasis(result) ==
    IF AllIn(result, WhiteSpace) THEN result
    ELSE IF Trim(result) = <<>> THEN <<>>
    ELSE handleEmphasisFormatting(result, <<"*">>)

RECURSIVE processNode(_, _)
processNode(d, node) ==
    LET kids == ChildNodes(d, node)
        result == Flat([k \in 1..Len(kids) |-> processNode(d, kids[k])])
        tagName == d[node].tag
    IN  CASE tagName = "#text" -> d[node].text
          [] tagName = "#comment" -> <<>>
          [] tagName \in {"strong", "b"} -> processStrong(result)
          [] tagName \in {"em", "i"} -> processEmphasis(result)
          [] tagName = "code" -> <<Backtick>> \o textContent(d, node) \o <<Backtick>>
          [] tagName = "img" -> processImage(d, node)
          [] tagName = "a" ->
               processAnchor(getAttribute(d, node, "href"), textContent(d, node))
          [] tagName = "span" ->
               IF HasClass(d, node, "footnote-anchor-email")
               THEN <<"[", "^">> \o textContent(d, node) \o <<"]">>
               ELSE result
          [] tagName = "br" -> <<"\n">>
          [] OTHER -> result

processInlineElementsSimple(d, element) ==
    LET kids == ChildNodes(d, element)
    IN  Flat([k \in 1..Len(kids) |-> processNode(d, kids[k])])

----------------------------------------------------------------------------
(* processFigure, processCaptionedImageContainer                           *)

Imgs(d, root) == {i \in Descendants(d, root) : d[i].tag = "img"}

\* 'figcaption, .image-caption, .caption'
FigureCaptions(d, root) ==
    {i \in Descendants(d, root) :
        \/ d[i].tag = "figcaption"
        \/ HasClass(d, i, "image-caption")
        \/ HasClass(d, i, "caption")}

\* '.image-caption, .caption, figcaption, .subtitle'
ContainerCaptions(d, root) ==
    {i \in Descendants(d, root) :
        \/ HasClass(d, i, "image-caption")
        \/ HasClass(d, i, "caption")
        \/ d[i].tag = "figcaption"
        \/ HasClass(d, i, "subtitle")}

\* `${imageMarkdown}\n*${captionText}*`
WithCaption(d, imageMarkdown, caption) ==
    imageMarkdown \o <<"\n", "*">> \o Trim(textContent(d, caption)) \o <<"*">>

\* processFigure without the caption.
processFigureNoCaption(d, figure) ==
    IF First(Imgs(d, figure)) = NullEl THEN <<>>
    ELSE processImage(d, First(Imgs(d, figure)))

\* processFigure without the test that the figure has an img.
processFigureUnguarded(d, figure) ==
    LET imageMarkdown == processImage(d, First(Imgs(d, figure)))
        caption == First(FigureCaptions(d, figure))
    IN  IF ~Truthy(imageMarkdown) THEN <<>>
        ELSE IF caption # NullEl THEN WithCaption(d, imageMarkdown, caption)
        ELSE imageMarkdown

processFigure(d, figure) ==
    LET img == First(Imgs(d, figure))
        imageMarkdown == processImage(d, img)
        caption == First(FigureCaptions(d, figure))
    IN  IF img = NullEl THEN <<>>
        ELSE IF ~Truthy(imageMarkdown) THEN <<>>
        ELSE IF caption # NullEl THEN WithCaption(d, imageMarkdown, caption)
        ELSE imageMarkdown

\* const caption = container.querySelector(...) ||
\*     container.nextElementSibling?.classList.contains('caption')
\*         ? container.nextElementSibling : null;
\* The conditional binds looser than ||: the query and the class test are
\* together its condition, and the sibling is its value.
captionOf(d, container) ==
    LET inner == First(ContainerCaptions(d, container))
        sibling == nextElementSibling(d, container)
    IN  IF inner # NullEl \/ (sibling # NullEl /\ HasClass(d, sibling, "caption"))
        THEN sibling
        ELSE NullEl

processCaptionedImageContainer(d, container) ==
    LET img == First(Imgs(d, container))
        imageMarkdown == processImage(d, img)
        caption == captionOf(d, container)
    IN  IF img = NullEl THEN <<>>
        ELSE IF ~Truthy(imageMarkdown) THEN <<>>
        ELSE IF caption # NullEl THEN WithCaption(d, imageMarkdown, caption)
        ELSE imageMarkdown

----------------------------------------------------------------------------
(* extractContentInOrder                                                   *)

Headings == {"h2", "h3", "h4", "h5", "h6"}

\* 'h2, h3, h4, h5, h6, p, blockquote, hr, ul, ol, .footnote, img, figure,
\*  .captioned-image-container'
IsCandidate(d, i) ==
    \/ d[i].tag \in Headings \cup {"p", "blockquote", "hr", "ul", "ol", "img", "figure"}
    \/ HasClass(d, i, "footnote")
    \/ HasClass(d, i, "captioned-image-container")

allElements(d, container) == {i \in Descendants(d, container) : IsCandidate(d, i)}

\* A block-level element that processes its own content.
ProcessesOwnContent(d, i) ==
    \/ d[i].tag \in {"blockquote", "ul", "ol", "figure"}
    \/ HasClass(d, i, "footnote")
    \/ HasClass(d, i, "captioned-image-container")

topLevelElements(d, container) ==
    {element \in allElements(d, container) :
        ~\E otherElement \in allElements(d, container) :
            /\ otherElement # element
            /\ Contains(d, otherElement, element)
            /\ ProcessesOwnContent(d, otherElement)}

DigitChars == <<"0", "1", "2", "3", "4", "5", "6", "7", "8", "9">>

RECURSIVE Digits(_)
\* A number in a template literal.
Digits(n) ==
    IF n < 10 THEN <<DigitChars[n + 1]>>
    ELSE Digits(n \div 10) \o <<DigitChars[(n % 10) + 1]>>

\* parseInt(tagName[1])
HeadingLevel(tag) ==
    CASE tag = "h2" -> 2 [] tag = "h3" -> 3 [] tag = "h4" -> 4
      [] tag = "h5" -> 5 [] tag = "h6" -> 6

Blockquotes(d) == {i \in Elements(d) : d[i].tag = "blockquote"}
Footnotes(d) == {i \in Elements(d) : HasClass(d, i, "footnote")}
Figures(d) == {i \in Elements(d) : d[i].tag = "figure"}
CaptionedContainers(d) == {i \in Elements(d) : HasClass(d, i, "captioned-image-container")}

\* case 'blockquote': the trimmed, non-empty lines of the text, each after '> '
quoteLines(quoteText) ==
    LET split == SplitOn(quoteText, "\n")
        lines == SelectSeq([k \in 1..Len(split) |-> Trim(split[k])],
                           LAMBDA line : line # <<>>)
    IN  JoinWith([k \in 1..Len(lines) |-> <<">", " ">> \o lines[k]], <<"\n">>)

\* case 'ul', 'ol': the line of item li, the index-th of the list's NodeList
listItem(d, tagName, li, index) ==
    LET itemText == processInlineElementsSimple(d, li)
        prefix == IF tagName = "ul" THEN <<"-">> ELSE Digits(index + 1) \o <<".">>
    IN  IF Truthy(Trim(itemText))
        THEN prefix \o <<" ">> \o Trim(itemText) \o <<"\n">>
        ELSE <<>>

\* What one pass of the forEach body appends to content for element.
blockOf(d, element) ==
    LET tagName == d[element].tag
    IN  CASE tagName \in Headings ->
               LET headingText == Trim(textContent(d, element))
               IN  IF Truthy(headingText)
                   THEN Repeat(<<"#">>, HeadingLevel(tagName)) \o <<" ">>
                            \o headingText \o <<"\n", "\n">>
                   ELSE <<>>
          [] tagName = "p" ->
               IF Closest(d, element, Blockquotes(d)) \/ Closest(d, element, Footnotes(d))
               THEN <<>>
               ELSE LET paragraphText == processInlineElementsSimple(d, element)
                    IN  IF Truthy(Trim(paragraphText))
                        THEN Trim(paragraphText) \o <<"\n", "\n">>
                        ELSE <<>>
          [] tagName = "blockquote" ->
               LET quoteText == Trim(textContent(d, element))
               IN  IF Truthy(quoteText)
                   THEN quoteLines(quoteText) \o <<"\n", "\n">>
                   ELSE <<>>
          [] tagName = "hr" -> <<"-", "-", "-", "\n", "\n">>
          [] tagName \in {"ul", "ol"} ->
               LET items == SortedSeq({i \in Descendants(d, element) : d[i].tag = "li"})
               IN  Flat([k \in 1..Len(items) |-> listItem(d, tagName, items[k], k - 1)])
                       \o <<"\n">>
          [] tagName = "img" ->
               IF ~Closest(d, element, Figures(d))
                  /\ ~Closest(d, element, CaptionedContainers(d))
               THEN LET imageMarkdown == processImage(d, element)
                    IN  IF Truthy(imageMarkdown)
                        THEN imageMarkdown \o <<"\n", "\n">>
                        ELSE <<>>
               ELSE <<>>
          [] tagName = "figure" ->
               LET figureMarkdown == processFigure(d, element)
               IN  IF Truthy(figureMarkdown)
                   THEN figureMarkdown \o <<"\n", "\n">>
                   ELSE <<>>
          [] tagName = "div" ->
               IF HasClass(d, element, "footnote")
               THEN LET num == First({i \in Descendants(d, element) :
                                         HasClass(d, i, "footnote-number")})
                        cont == First({i \in Descendants(d, element) :
                                          HasClass(d, i, "footnote-content")})
                        \* ?.textContent: undefined when the query found nothing
                        footnoteNum == IF num = NullEl THEN Null ELSE textContent(d, num)
                        footnoteContent == IF cont = NullEl THEN Null ELSE textContent(d, cont)
                    IN  IF Truthy(footnoteNum) /\ Truthy(footnoteContent)
                        THEN <<"[", "^">> \o footnoteNum \o <<"]", ":", " ">>
                                 \o Trim(footnoteContent) \o <<"\n", "\n">>
                        ELSE <<>>
               ELSE IF HasClass(d, element, "captioned-image-container")
               THEN LET imageMarkdown == processCaptionedImageContainer(d, element)
                    IN  IF Truthy(imageMarkdown)
                        THEN imageMarkdown \o <<"\n", "\n">>
                        ELSE <<>>
               ELSE <<>>
          [] OTHER -> <<>>

\* The elements topLevelElements holds, last to first.
reverseOrder(d, container) ==
    LET order == SortedSeq(topLevelElements(d, container))
    IN  [k \in 1..Len(order) |-> order[Len(order) + 1 - k]]

\* The elements topLevelElements.forEach visits, in the order it visits them.
renderOrder(d, container) == SortedSeq(topLevelElements(d, container))

extractContentInOrder(d, container) ==
    LET order == renderOrder(d, container)
    IN  Flat([k \in 1..Len(order) |-> blockOf(d, order[k])])

----------------------------------------------------------------------------
(* htmlToMarkdown                                                          *)

LowerCase == <<"a", "b", "c", "d", "e", "f", "g", "h", "i", "j", "k", "l", "m", "n", "o", "p", "q", "r", "s", "t", "u", "v", "w", "x", "y", "z">>
UpperCase == <<"A", "B", "C", "D", "E", "F", "G", "H", "I", "J", "K", "L", "M", "N", "O", "P", "Q", "R", "S", "T", "U", "V", "W", "X", "Y", "Z">>

\* String.prototype.toUpperCase
toUpperCase(s) ==
    [i \in 1..Len(s) |->
        IF \E k \in 1..26 : LowerCase[k] = s[i]
        THEN UpperCase[CHOOSE k \in 1..26 : LowerCase[k] = s[i]]
        ELSE s[i]]

ReadInApp == <<"R", "E", "A", "D", " ", "I", "N", " ", "A", "P", "P">>
AuthorWord == <<"a", "u", "t", "h", "o", "r">>
AuthorLabel == <<"*", "*", "A", "u", "t", "h", "o", "r", ":", "*", "*", " ">>
Unknown == <<"U", "n", "k", "n", "o", "w", "n">>
DateLabel == <<" ", "|", " ", "*", "*", "D", "a", "t", "e", ":", "*", "*", " ">>
Divider == <<"-", "-", "-", "\n", "\n">>
\* The emoji before the read-in-app link, named by its code point.
Phone == <<"U+1F4F1">>

\* 'h1, .post-title'
TitleElements(d) == {i \in Elements(d) : d[i].tag = "h1" \/ HasClass(d, i, "post-title")}

\* 'h3.subtitle, .subtitle'
SubtitleElements(d) ==
    {i \in Elements(d) :
        \/ d[i].tag = "h3" /\ HasClass(d, i, "subtitle")
        \/ HasClass(d, i, "subtitle")}

\* '.meta-EgzBVA a, [data-component-name*="author"]'
AuthorElements(d) ==
    {i \in Elements(d) :
        \/ /\ d[i].tag = "a"
           /\ \E m \in Elements(d) : HasClass(d, m, "meta-EgzBVA") /\ IsAncestor(d, m, i)
        \/ /\ getAttribute(d, i, "data-component-name") # Null
           /\ Includes(getAttribute(d, i, "data-component-name"), AuthorWord)}

\* 'time'
TimeElements(d) == {i \in Elements(d) : d[i].tag = "time"}

Anchors(d) == {i \in Elements(d) : d[i].tag = "a"}

\* 'a[href*="redirect=app-store"]', else the first link that reads READ IN APP
readInAppLink(d) ==
    LET byHref == First({i \in Anchors(d) :
                            /\ getAttribute(d, i, "href") # Null
                            /\ Includes(getAttribute(d, i, "href"), RedirectAppStore)})
        byText == First({i \in Anchors(d) :
                            Includes(toUpperCase(textContent(d, i)), ReadInApp)})
    IN  IF byHref # NullEl THEN byHref ELSE byText

\* The title as a second-level heading.
titleAsH2(d) ==
    LET title == First(TitleElements(d))
    IN  IF title # NullEl
        THEN <<"#", "#", " ">> \o Trim(textContent(d, title)) \o <<"\n", "\n">>
        ELSE <<>>

titleMarkdown(d) ==
    LET title == First(TitleElements(d))
    IN  IF title # NullEl
        THEN <<"#", " ">> \o Trim(textContent(d, title)) \o <<"\n", "\n">>
        ELSE <<>>

subtitleMarkdown(d) ==
    LET subtitle == First(SubtitleElements(d))
    IN  IF subtitle # NullEl
        THEN <<"*">> \o Trim(textContent(d, subtitle)) \o <<"*", "\n", "\n">>
        ELSE <<>>

\* The byline with "Unknown" for an author element without text.
bylineUnknownWhenEmpty(d) ==
    LET author == First(AuthorElements(d))
        date == First(TimeElements(d))
    IN  IF author # NullEl \/ date # NullEl
        THEN AuthorLabel
                 \o (IF author # NullEl /\ Truthy(Trim(textContent(d, author)))
                     THEN Trim(textContent(d, author)) ELSE Unknown)
                 \o (IF date # NullEl THEN DateLabel \o Trim(textContent(d, date)) ELSE <<>>)
                 \o <<"\n", "\n">>
        ELSE <<>>

bylineMarkdown(d) ==
    LET author == First(AuthorElements(d))
        date == First(TimeElements(d))
    IN  IF author # NullEl \/ date # NullEl
        THEN AuthorLabel
                 \o (IF author # NullEl THEN Trim(textContent(d, author)) ELSE Unknown)
                 \o (IF date # NullEl THEN DateLabel \o Trim(textContent(d, date)) ELSE <<>>)
                 \o <<"\n", "\n">>
        ELSE <<>>

readInAppMarkdown(d) ==
    LET link == readInAppLink(d)
    IN  IF link # NullEl
        THEN Phone \o <<" ", "[">> \o Trim(textContent(d, link)) \o <<"]", "(">>
                 \o Str(getAttribute(d, link, "href")) \o <<")", "\n", "\n">>
        ELSE <<>>

\* The header with the divider only when a field was found.
headerDividerIfFields(d) ==
    LET fields == titleMarkdown(d) \o subtitleMarkdown(d) \o bylineMarkdown(d)
                      \o readInAppMarkdown(d)
    IN  IF fields = <<>> THEN <<>> ELSE fields \o Divider

\* Lines 20-63: markdown after the header fields and the divider.
headerMarkdown(d) ==
    titleMarkdown(d) \o subtitleMarkdown(d) \o bylineMarkdown(d)
        \o readInAppMarkdown(d) \o Divider

\* document.body
Body(d) == 1

\* The element of the first selector that finds one, whatever its text.
containerFirstFound(d) ==
    LET found == << First({i \in Elements(d) : HasClass(d, i, "body") /\ HasClass(d, i, "markup")}),
                    First({i \in Elements(d) : HasClass(d, i, "markup")}),
                    First({i \in Elements(d) : d[i].tag = "body"}) >>
    IN  found[Min({k \in 1..Len(found) : found[k] # NullEl})]

\* contentSelectors, each as the element doc.querySelector finds for it
contentCandidates(d) ==
    << First({i \in Elements(d) : HasClass(d, i, "body") /\ HasClass(d, i, "markup")}),
       First({i \in Elements(d) :
                 /\ HasClass(d, i, "body")
                 /\ \E a \in Elements(d) :
                        /\ HasClass(d, a, "post") /\ HasClass(d, a, "typography")
                        /\ IsAncestor(d, a, i)}),
       First({i \in Elements(d) : HasClass(d, i, "markup")}),
       First({i \in Elements(d) : d[i].tag = "body"}) >>

\* The loop breaks at the first selector whose element has text; when it
\* never breaks, contentContainer is what the last selector found.
contentContainerOf(d) ==
    LET found == contentCandidates(d)
        hits == {k \in 1..Len(found) :
                    found[k] # NullEl /\ Truthy(Trim(textContent(d, found[k])))}
        contentContainer == IF hits # {} THEN found[Min(hits)] ELSE found[Len(found)]
    IN  IF contentContainer = NullEl THEN Body(d) ELSE contentContainer

htmlToMarkdown(d) ==
    Trim(headerMarkdown(d) \o extractContentInOrder(d, contentContainerOf(d)))

convertHtmltoMarkdown(d) == cleanMarkdown(htmlToMarkdown(d))

----------------------------------------------------------------------------
(* convertHtmltoMarkdown, one step at a time.  Calls hold their own        *)
(* document and their own markdown; a call that is "off" never runs.       *)

Calls == {1, 2}

\* One markdown for all calls: that of call 1.
SharedMarkdown(c) == markdown[1]

\* let markdown = '' is a local of the call.
LocalMarkdown(c) == markdown[c]

\* Lines 20-63: the header fields and the divider.
ExtractHeader(c) ==
    /\ pc[c] = "parsed"
    /\ LET md == LocalMarkdown(c) \o headerMarkdown(doc[c])
       IN  /\ markdown' = [markdown EXCEPT ![c] = md]
           /\ pc' = [pc EXCEPT ![c] = IF Threw(md) THEN "threw" ELSE "header"]
    /\ UNCHANGED <<doc, out, fnVars, pluginVars>>

\* Lines 65-88: the container, its blocks, and the trim.
ExtractContent(c) ==
    /\ pc[c] = "header"
    /\ LET md == Trim(LocalMarkdown(c)
                        \o extractContentInOrder(doc[c], contentContainerOf(doc[c])))
       IN  /\ markdown' = [markdown EXCEPT ![c] = md]
           /\ pc' = [pc EXCEPT ![c] = IF Threw(md) THEN "threw" ELSE "converted"]
    /\ UNCHANGED <<doc, out, fnVars, pluginVars>>

\* Lines 427-429: cleanMarkdown and the return.
Clean(c) ==
    /\ pc[c] = "converted"
    /\ out' = [out EXCEPT ![c] = cleanMarkdown(LocalMarkdown(c))]
    /\ pc' = [pc EXCEPT ![c] = "returned"]
    /\ UNCHANGED <<doc, markdown, fnVars, pluginVars>>

Next == \E c \in Calls : ExtractHeader(c) \/ ExtractContent(c) \/ Clean(c)

FnIdle ==
    /\ fnIn = <<>>
    /\ fnOut = <<>>
    /\ fnOut2 = <<>>
    /\ fnPc = "off"

\* One call, on a document of D.
InitOn(D) ==
    /\ \E d \in D : doc = [c \in Calls |-> IF c = 1 THEN d ELSE <<>>]
    /\ pc = [c \in Calls |-> IF c = 1 THEN "parsed" ELSE "off"]
    /\ markdown = [c \in Calls |-> <<>>]
    /\ out = [c \in Calls |-> <<>>]
    /\ FnIdle
    /\ PluginIdle

----------------------------------------------------------------------------
(* The documents                                                           *)

W_Title == <<"T", "i", "t", "l", "e">>
W_Hello == <<"H", "e", "l", "l", "o", " ">>
W_world == <<"w", "o", "r", "l", "d">>
W_Head == <<"H", "e", "a", "d">>
W_Para == <<"P", "a", "r", "a">>
W_Quote == <<"Q", "u", "o", "t", "e">>
W_one == <<"o", "n", "e">>
W_two == <<"t", "w", "o">>
W_sub == <<"s", "u", "b">>
W_Cap == <<"C", "a", "p">>
W_In == <<"I", "n">>
W_Sib == <<"S", "i", "b">>
W_Note == <<"N", "o", "t", "e">>
W_1 == <<"1">>
W_A == <<"A">>
W_Like == <<"L", "i", "k", "e">>
W_May == <<"M", "a", "y">>
W_Ann == <<"A", "n", "n">>
W_Open == <<"O", "p", "e", "n">>
Src_a == <<"a", ".", "p", "n", "g">>
Src_b == <<"b", ".", "p", "n", "g">>
Src_c == <<"c", ".", "p", "n", "g">>
Src_d == <<"d", ".", "p", "n", "g">>
Src_e == <<"e", ".", "p", "n", "g">>

P(text) == El("p", {}, {}, <<Tx(text)>>)
Li(kids) == El("li", {}, {}, kids)
Img(src) == El("img", {}, {<<"src", src>>, <<"alt", W_A>>}, <<>>)

\* The blocks the documents are made of.
Palette == <<
    El("h2", {}, {}, <<Tx(W_Head)>>),
    P(W_Para),
    El("blockquote", {}, {}, <<P(W_Quote)>>),
    El("ul", {}, {}, <<Li(<<Tx(W_one)>>), Li(<<Tx(W_two)>>)>>),
    El("ul", {}, {}, <<Li(<<Tx(W_one), El("ul", {}, {}, <<Li(<<Tx(W_sub)>>)>>)>>)>>),
    El("ol", {}, {}, <<Li(<<Tx(W_one)>>), Li(<<Tx(<<" ">>)>>), Li(<<Tx(W_two)>>)>>),
    El("hr", {}, {}, <<>>),
    Img(Src_a),
    El("p", {}, {}, <<Tx(W_Hello), Img(Src_b)>>),
    El("figure", {}, {}, <<Img(Src_c), El("figcaption", {}, {}, <<Tx(W_Cap)>>)>>),
    El("figure", {}, {}, <<El("figcaption", {}, {}, <<Tx(W_Cap)>>)>>),
    El("div", {"captioned-image-container"}, {},
       <<Img(Src_d), El("div", {"image-caption"}, {}, <<Tx(W_In)>>)>>),
    El("div", {"captioned-image-container"}, {}, <<Img(Src_e)>>),
    El("div", {"captioned-image-container"}, {}, <<Comment(W_Note)>>),
    El("div", {"caption"}, {}, <<Tx(W_Sib)>>),
    El("div", {"footnote"}, {},
       <<El("a", {"footnote-number"}, {}, <<Tx(W_1)>>),
         El("div", {"footnote-content"}, {}, <<P(W_Note)>>)>>),
    El("div", {"footnote"}, {}, <<El("div", {"footnote-content"}, {}, <<P(W_Note)>>)>>),
    El("p", {}, {}, <<El("a", {}, {}, <<Tx(W_Like)>>), El("img", {}, {}, <<>>)>>),
    El("time", {}, {}, <<Tx(W_May)>>),
    El("span", {}, {<<"data-component-name", AuthorWord>>}, <<Tx(W_Ann)>>),
    El("p", {}, {}, <<El("a", {}, {}, <<Tx(ReadInApp)>>)>>)
>>

\* How many blocks a generated document holds at most.
MaxBlocks == 2

\* The sequences of at most MaxBlocks different blocks.
BlockChoices ==
    {s \in UNION {[1..n -> 1..Len(Palette)] : n \in 0..MaxBlocks} :
        \A i, j \in 1..Len(s) : i # j => s[i] # s[j]}

BlockDocs == {Document([k \in 1..Len(s) |-> Palette[s[k]]]) : s \in BlockChoices}

\* <h1>Title</h1><p>Hello <strong>world</strong></p>
DocEndToEnd ==
    Document(<<El("h1", {}, {}, <<Tx(W_Title)>>),
               El("p", {}, {}, <<Tx(W_Hello), El("strong", {}, {}, <<Tx(W_world)>>)>>)>>)

\* A container with children [h2, p, ul]
DocOrdering == Document(<<Palette[1], Palette[2], Palette[4]>>)

Docs == BlockDocs \cup {DocEndToEnd, DocOrdering}

Init == InitOn(Docs)

Spec == Init /\ [][Next]_vars

----------------------------------------------------------------------------
(* Claims about the blocks of a converted document                         *)

\* Call c has run extractContentInOrder.
Extracted(c) == pc[c] \in {"converted", "returned"}

\* What extractContentInOrder contributed to markdown[c]: the text after the
\* header (its trailing newlines trimmed with the whole).
BodyOf(c) ==
    SubSeq(markdown[c], Len(headerMarkdown(doc[c])) + 1, Len(markdown[c]))

\* The candidates inside another candidate that processes its own content.
NestedCandidates(d, container) ==
    {e \in allElements(d, container) :
        \E o \in allElements(d, container) :
            o # e /\ IsAncestor(d, o, e) /\ ProcessesOwnContent(d, o)}

\* The paragraphs directly inside a blockquote.
QuotedParagraphs(d) ==
    {e \in Elements(d) :
        d[e].tag = "p" /\ d[e].parent # 0 /\ d[d[e].parent].tag = "blockquote"}

\* The line of s that holds index i.
LineAround(s, i) ==
    LET from == IF \E k \in 1..i : s[k] = "\n"
                THEN Max({k \in 1..i : s[k] = "\n"}) + 1 ELSE 1
        to == IF \E k \in i..Len(s) : s[k] = "\n"
              THEN Min({k \in i..Len(s) : s[k] = "\n"}) - 1 ELSE Len(s)
    IN  SubSeq(s, from, to)

\* C1: no candidate nested in a blockquote, list, footnote, figure or
\* captioned-image container is rendered as a block of its own; every other
\* candidate is rendered exactly once, so an image that is a block of its own
\* occurs once in the body; and the text of a p inside a blockquote occurs
\* once, on a line that starts with "> ".
C1_NoDoubleRender ==
    \A c \in Calls : Extracted(c) =>
        LET d == doc[c]
            container == contentContainerOf(d)
            order == renderOrder(d, container)
        IN  /\ \A k \in 1..Len(order) : order[k] \notin NestedCandidates(d, container)
            /\ \A e \in allElements(d, container) \ NestedCandidates(d, container) :
                   Cardinality({k \in 1..Len(order) : order[k] = e}) = 1
            /\ \A e \in topLevelElements(d, container) :
                   (d[e].tag = "img" /\ Truthy(processImage(d, e)))
                       => Occurrences(BodyOf(c), processImage(d, e)) = 1
            /\ \A e \in QuotedParagraphs(d) \cap NestedCandidates(d, container) :
                   /\ Occurrences(BodyOf(c), TextOf(d, e)) = 1
                   /\ LET line == LineAround(BodyOf(c), IndexOf(BodyOf(c), TextOf(d, e)))
                      IN  OccursAt(line, <<">", " ">>, 1)

EndToEndClaimed == <<"#", " ", "T", "i", "t", "l", "e", "\n", "\n", "-", "-", "-", "\n", "\n", "H", "e", "l", "l", "o", " ", "*", "*", "w", "o", "r", "l", "d", "*", "*", "\n", "\n">>
EndToEndReturned == <<"#", " ", "T", "i", "t", "l", "e", "\n", "\n", "-", "-", "-", "\n", "\n", "H", "e", "l", "l", "o", " ", "*", "*", "w", "o", "r", "l", "d", "*", "*">>

\* C2 as stated: <h1>Title</h1><p>Hello <strong>world</strong></p> converts
\* to "# Title\n\n---\n\nHello **world**\n\n".
C2_EndToEndClaimed ==
    \A c \in Calls :
        (pc[c] = "returned" /\ doc[c] = DocEndToEnd) => out[c] = EndToEndClaimed

\* C2 as amended: the same document converts to
\* "# Title\n\n---\n\nHello **world**", the trailing newlines trimmed.
C2_EndToEnd ==
    \A c \in Calls :
        (pc[c] = "returned" /\ doc[c] = DocEndToEnd) => out[c] = EndToEndReturned

C2_Witness == pc[1] = "returned" /\ doc[1] = DocEndToEnd

\* C4: blocks come out in document order: of two rendered top-level
\* elements, the one earlier in the document has its fragment earlier in the
\* body; for [h2, p, ul] the heading is before the paragraph, which is
\* before the list.
C4_DocumentOrder ==
    \A c \in Calls : Extracted(c) =>
        LET d == doc[c]
            top == topLevelElements(d, contentContainerOf(d))
            at(e) == IndexOf(BodyOf(c), Trim(blockOf(d, e)))
        IN  /\ \A a, b \in top :
                   (a < b /\ Truthy(Trim(blockOf(d, a))) /\ Truthy(Trim(blockOf(d, b))))
                       => (at(a) > 0 /\ at(a) < at(b))
            /\ d = DocOrdering =>
                   /\ IndexOf(BodyOf(c), W_Head) > 0
                   /\ IndexOf(BodyOf(c), W_Head) < IndexOf(BodyOf(c), W_Para)
                   /\ IndexOf(BodyOf(c), W_Para) < IndexOf(BodyOf(c), W_one)

C4_Witness == pc[1] = "converted" /\ doc[1] = DocOrdering

ClaimedCaption(d, container) ==
    LET inner == First(ContainerCaptions(d, container))
        sibling == nextElementSibling(d, container)
    IN  IF inner # NullEl THEN inner
        ELSE IF sibling # NullEl /\ HasClass(d, sibling, "caption") THEN sibling
        ELSE NullEl

\* The captioned-image containers rendered as blocks, with an image to show.
RenderedContainers(d) ==
    {e \in topLevelElements(d, contentContainerOf(d)) :
        /\ d[e].tag = "div"
        /\ ~HasClass(d, e, "footnote")
        /\ HasClass(d, e, "captioned-image-container")
        /\ Imgs(d, e) # {}
        /\ Truthy(processImage(d, First(Imgs(d, e))))}

\* C10: the caption of a captioned-image container is its first descendant
\* matching .image-caption, .caption, figcaption or .subtitle; without one,
\* the next sibling if it has class caption; else there is none; a caption
\* found is appended as "\n*caption*" under the image.
C10_CaptionFallback ==
    \A c \in Calls : Extracted(c) =>
        \A e \in RenderedContainers(doc[c]) :
            LET d == doc[c]
                image == processImage(d, First(Imgs(d, e)))
                caption == ClaimedCaption(d, e)
                claimed == IF caption # NullEl
                           THEN image \o <<"\n", "*">> \o Trim(TextOf(d, caption)) \o <<"*">>
                           ELSE image
            IN  /\ blockOf(d, e) = claimed \o <<"\n", "\n">>
                /\ Includes(BodyOf(c), claimed)

\* The li children of a list, in order.
DirectItems(d, list) == SortedSeq({i \in Elements(d) : d[i].tag = "li" /\ d[i].parent = list})

\* The block C16 describes for a ul or ol: a line for every direct li whose
\* rendering is not blank, "- " or "{n}. " before it, and one "\n" to end.
ClaimedList(d, list) ==
    LET items == DirectItems(d, list)
        line(k) == LET itemText == Trim(processInlineElementsSimple(d, items[k]))
                       prefix == IF d[list].tag = "ul" THEN <<"-">> ELSE Digits(k) \o <<".">>
                   IN  IF itemText = <<>> THEN <<>>
                       ELSE prefix \o <<" ">> \o itemText \o <<"\n">>
    IN  Flat([k \in 1..Len(items) |-> line(k)]) \o <<"\n">>

RenderedLists(d) ==
    {e \in topLevelElements(d, contentContainerOf(d)) : d[e].tag \in {"ul", "ol"}}

\* C16: a ul or ol emits one line for each of its direct li that is not
\* blank, in order, "- " before a ul item and "{n}. " before an ol item,
\* and one "\n" after them; the li of a list nested in an item is not one
\* more item of the outer list, so its text is not rendered twice.
C16_ListItems ==
    \A c \in Calls : Extracted(c) =>
        LET d == doc[c]
        IN  \A e \in RenderedLists(d) :
                /\ blockOf(d, e) = ClaimedList(d, e)
                /\ \A li \in Descendants(d, e) :
                       (d[li].tag = "li" /\ d[li].parent # e)
                           => Occurrences(BodyOf(c), TextOf(d, li)) = 1

\* The same, for the lists that hold no list.
C16_FlatLists ==
    (\A c \in Calls : \A e \in RenderedLists(doc[c]) :
         \A li \in Descendants(doc[c], e) : doc[c][li].tag = "li" => doc[c][li].parent = e)
        => C16_ListItems

----------------------------------------------------------------------------
(* Images: every way an img is reached, with every mix of attributes       *)

W_T == <<"T">>
TrackingSrc == Tracking \o <<"/">> \o Src_a

ImgAttributes == {
    {<<"src", Src_a>>, <<"alt", W_A>>},
    {<<"src", Src_a>>, <<"alt", W_A>>, <<"title", W_T>>},
    {<<"src", Src_a>>},
    {},
    {<<"alt", W_A>>, <<"title", W_T>>},
    {<<"src", <<>>>>, <<"alt", W_A>>},
    {<<"src", TrackingSrc>>, <<"alt", W_A>>},
    {<<"src", Src_a>>, <<"alt", W_A>>, <<"width", <<"1">>>>},
    {<<"src", Src_a>>, <<"alt", W_A>>, <<"height", <<"1">>>>},
    {<<"src", Src_a>>, <<"width", <<"1">>>>, <<"height", <<"1">>>>},
    {<<"src", Src_a>>, <<"width", <<"1", "0">>>>, <<"height", <<"1", "0">>>>},
    {<<"src", Src_a>>, <<"alt", <<>>>>, <<"title", <<>>>>},
    {<<"src", Src_a>>, <<"title", W_T>>}
}

\* The places an img is rendered from: a block of its own, a figure, a
\* captioned-image container, a paragraph, a list item, a link.
ImgPlaces(img) == {
    <<img>>,
    <<El("figure", {}, {}, <<img, El("figcaption", {}, {}, <<Tx(W_Cap)>>)>>)>>,
    <<El("div", {"captioned-image-container"}, {},
         <<img, El("div", {"image-caption"}, {}, <<Tx(W_In)>>)>>),
      El("div", {"caption"}, {}, <<Tx(W_Sib)>>)>>,
    <<El("p", {}, {}, <<Tx(W_Hello), img>>)>>,
    <<El("ul", {}, {}, <<Li(<<img>>)>>)>>,
    <<El("p", {}, {}, <<El("a", {}, {<<"href", Src_b>>}, <<img>>)>>)>>
}

ImageDocs ==
    UNION {{Document(kids) : kids \in ImgPlaces(El("img", {}, attrs, <<>>))} :
              attrs \in ImgAttributes}

InitImages == InitOn(ImageDocs)

SpecImages == InitImages /\ [][Next]_vars

\* The images C5 is about: no src, a src containing "tracking", width "1",
\* or height "1".
IsTrackingPixel(d, img) ==
    \/ ~\E a \in d[img].attrs : a[1] = "src"
    \/ \E a \in d[img].attrs : a[1] = "src" /\ Includes(a[2], Tracking)
    \/ <<"width", <<"1">>>> \in d[img].attrs
    \/ <<"height", <<"1">>>> \in d[img].attrs

ImageOpening == <<"!", "[">>

\* C5: processImage returns '' for every img that has no src, or has
\* "tracking" in its src, or has width "1" or height "1"; when every img of
\* the document is one of these, neither the markdown extracted nor the
\* string returned holds image markdown.
C5_TrackingPixels ==
    \A c \in Calls : pc[c] # "off" =>
        LET d == doc[c]
        IN  /\ \A i \in Imgs(d, Body(d)) : IsTrackingPixel(d, i) => processImage(d, i) = <<>>
            /\ (\A i \in Imgs(d, Body(d)) : IsTrackingPixel(d, i)) =>
                   /\ ~Includes(markdown[c], ImageOpening)
                   /\ ~Includes(out[c], ImageOpening)

\* A figure whose img has height "1" has been converted.
C5_Witness ==
    /\ pc[1] = "returned"
    /\ \E f \in Figures(doc[1]) : \E i \in Imgs(doc[1], f) :
           <<"height", <<"1">>>> \in doc[1][i].attrs

\* The value of attribute name of img as written, '' when there is none.
AttributeOr(d, img, name) ==
    IF \E a \in d[img].attrs : a[1] = name
    THEN (CHOOSE a \in d[img].attrs : a[1] = name)[2]
    ELSE <<>>

\* The imgs the filter lets through: a src that is not empty and holds no
\* "tracking", and neither width nor height "1".
IsShown(d, img) ==
    /\ AttributeOr(d, img, "src") # <<>>
    /\ ~IsTrackingPixel(d, img)

\* "![alt](src)", or "![alt](src "title")" when title is not empty
ClaimedImage(d, img) ==
    LET alt == AttributeOr(d, img, "alt")
        src == AttributeOr(d, img, "src")
        title == AttributeOr(d, img, "title")
    IN  IF title # <<>>
        THEN <<"!", "[">> \o alt \o <<"]", "(">> \o src \o <<" ", "\"">> \o title \o <<"\"", ")">>
        ELSE <<"!", "[">> \o alt \o <<"]", "(">> \o src \o <<")">>

\* C20: for an img that is not filtered processImage returns "![alt](src)",
\* alt '' when there is none, and "![alt](src "title")" exactly when title
\* is not empty; and that is what the document holds for the img, unless the
\* img is inside a link (whose text alone is rendered).
C20_ImageMarkdown ==
    \A c \in Calls : pc[c] # "off" =>
        \A i \in Imgs(doc[c], Body(doc[c])) :
            LET d == doc[c]
            IN  IsShown(d, i) =>
                    /\ processImage(d, i) = ClaimedImage(d, i)
                    /\ (Extracted(c) /\ ~Closest(d, i, Anchors(d)))
                           => Includes(BodyOf(c), ClaimedImage(d, i))

\* A figure whose img has a title and no alt has been converted.
C20_Witness ==
    /\ pc[1] = "returned"
    /\ \E f \in Figures(doc[1]) : \E i \in Imgs(doc[1], f) :
           /\ doc[1][i].attrs = {<<"src", Src_a>>, <<"title", W_T>>}
           /\ Includes(out[1], <<"!", "[", "]", "(", "a", ".", "p", "n", "g", " ", "\"", "T", "\"", ")">>)

\* The images rendered as blocks of their own: the standalone img, and the
\* first img of a figure or of a captioned-image-container.
BlockImages(d) ==
    {img \in Elements(d) :
        \E e \in topLevelElements(d, contentContainerOf(d)) :
            /\ Truthy(blockOf(d, e))
            /\ Truthy(processImage(d, img))
            /\ \/ d[e].tag = "img" /\ img = e
               \/ d[e].tag = "figure" /\ img = First(Imgs(d, e))
               \/ /\ d[e].tag = "div"
                  /\ HasClass(d, e, "captioned-image-container")
                  /\ ~HasClass(d, e, "footnote")
                  /\ img = First(Imgs(d, e))}

\* C23: in what convertHtmltoMarkdown returns, the markdown of every
\* block-level image starts at the beginning of its own line: cleanMarkdown
\* does not join "![alt](src)" to the end of the block before it or to the
\* "---" of the divider.
C23_ImageStartsLine ==
    \A c \in Calls :
        pc[c] = "returned" =>
            \A img \in BlockImages(doc[c]) :
                \E i \in 1..Len(out[c]) :
                    /\ OccursAt(out[c], processImage(doc[c], img), i)
                    /\ LineStart(out[c], i)

\* Before cleanMarkdown every block-level image starts its line.
C23_BeforeClean ==
    \A c \in Calls :
        pc[c] = "converted" =>
            \A img \in BlockImages(doc[c]) :
                \E i \in 1..Len(markdown[c]) :
                    /\ OccursAt(markdown[c], processImage(doc[c], img), i)
                    /\ LineStart(markdown[c], i)

----------------------------------------------------------------------------
(* Links: a paragraph holding one anchor, with every mix of the words the  *)
(* anchor rule looks for in href                                           *)

HostApp == <<"h", "t", "t", "p", "s", ":", "/", "/", "x", ".", "s", "u", "b", "s", "t", "a", "c", "k", ".", "c", "o", "m", "/", "a", "p", "p", "-", "l", "i", "n", "k", "?">>
HostOther == <<"h", "t", "t", "p", "s", ":", "/", "/", "e", "x", "a", "m", "p", "l", "e", ".", "c", "o", "m", "/", "p", "/", "p", "o", "s", "t", "?">>
Amp == <<"&">>

\* The words of an href, in the order they are written.
HrefWords == <<RedirectAppStore, ActionLike, ActionShare, ActionComment,
               SubmitLike, Unsubscribe>>

\* How many of the words one href holds at most.
MaxHrefWords == 3

Hrefs ==
    {host \o JoinWith(SelectSeq([k \in 1..Len(HrefWords) |->
                                    IF k \in ks THEN HrefWords[k] ELSE <<>>],
                                LAMBDA w : w # <<>>), Amp) :
        host \in {HostApp, HostOther},
        ks \in {x \in SUBSET (1..Len(HrefWords)) : Cardinality(x) <= MaxHrefWords}}

LinkDoc(attrs, text) == Document(<<El("p", {}, {}, <<El("a", {}, attrs, <<Tx(text)>>)>>)>>)

DocLike == LinkDoc({<<"href", HostApp \o ActionLike>>}, W_Like)
DocOpen == LinkDoc({<<"href", HostApp \o RedirectAppStore>>}, W_Open)

LinkDocs ==
    {LinkDoc({<<"href", h>>}, t) : h \in Hrefs \cup {<<>>}, t \in {W_Like, W_Open}}
        \cup {LinkDoc({}, t) : t \in {W_Like, W_Open}}

InitLinks == InitOn(LinkDocs)

SpecLinks == InitLinks /\ [][Next]_vars

\* The href attribute of an anchor as written, Null when there is none.
HrefOf(d, a) ==
    IF \E x \in d[a].attrs : x[1] = "href"
    THEN (CHOOSE x \in d[a].attrs : x[1] = "href")[2]
    ELSE Null

\* The anchor rule in the words of C6, given when href counts as absent.
AnchorRule(absent, href, text) ==
    LET action == \E w \in {ActionLike, ActionShare, ActionComment, SubmitLike} :
                      Includes(href, w)
    IN  IF \/ absent
           \/ Includes(href, Unsubscribe)
           \/ Includes(href, AppLink) /\ ~Includes(href, RedirectAppStore) /\ action
        THEN text
        ELSE <<"[">> \o text \o <<"]", "(">> \o Str(href) \o <<")">>

LinkOpen == <<"[">> \o W_Open \o <<"]", "(">> \o HostApp \o RedirectAppStore \o <<")">>

\* The two anchors C6 names render as C6 says, in the rule and in the body
\* of the converted document.
C6_Examples ==
    \A c \in Calls : pc[c] # "off" =>
        LET d == doc[c]
        IN  /\ d = DocLike => \A a \in Anchors(d) : processNode(d, a) = W_Like
            /\ d = DocOpen => \A a \in Anchors(d) : processNode(d, a) = LinkOpen
            /\ (d = DocLike /\ Extracted(c)) => BodyOf(c) = W_Like
            /\ (d = DocOpen /\ Extracted(c)) => BodyOf(c) = LinkOpen
            /\ (d = DocLike /\ pc[c] = "returned") => out[c] = Divider \o W_Like

\* C6 as written: an anchor renders as its bare text when it has no href
\* attribute, when href contains "unsubscribe", or when href contains
\* "substack.com/app-link" without "redirect=app-store" and with action=like,
\* action=share, action=comment or submitLike=true; in every other case as
\* "[text](href)"; "Like" and "Open" render as the claim says.
C6_AnchorRuleClaimed ==
    /\ C6_Examples
    /\ \A c \in Calls : Extracted(c) =>
           \A a \in Anchors(doc[c]) :
               LET href == HrefOf(doc[c], a)
                   claimed == AnchorRule(href = Null, href, TextOf(doc[c], a))
               IN  /\ processNode(doc[c], a) = claimed
                   /\ BodyOf(c) = claimed

\* C6, amended: the bare text is also what an anchor with an empty href
\* renders as; every other case is as C6 says.  In a paragraph that holds
\* the anchor alone, what the rule returns is the body of the document.
C6_AnchorRule ==
    /\ C6_Examples
    /\ \A c \in Calls : Extracted(c) =>
           \A a \in Anchors(doc[c]) :
               LET href == HrefOf(doc[c], a)
                   amended == AnchorRule(href = Null \/ href = <<>>, href, TextOf(doc[c], a))
               IN  /\ processNode(doc[c], a) = amended
                   /\ BodyOf(c) = amended

\* The anchor "Open" to app-link?redirect=app-store has been converted and
\* kept its link.
C6_Witness ==
    /\ pc[1] = "returned"
    /\ doc[1] = DocOpen
    /\ Includes(out[1], LinkOpen)

----------------------------------------------------------------------------
(* The content container: documents made of wrappers that the             *)
(* contentSelectors find or pass over                                      *)

Blank == <<" ">>

\* A wrapper div of the given classes around kids.
Wrap(cls, kids) == El("div", cls, {}, kids)

Wrappers == <<
    Wrap({"body", "markup"}, <<P(W_Para)>>),
    Wrap({"body", "markup"}, <<Tx(Blank)>>),
    Wrap({"post", "typography"}, <<Wrap({"body"}, <<P(W_Quote)>>)>>),
    Wrap({"post", "typography"}, <<Wrap({"body"}, <<>>)>>),
    Wrap({"markup"}, <<P(W_one)>>),
    Wrap({"markup"}, <<Tx(Blank)>>),
    P(W_two),
    Wrap({"body"}, <<P(W_Head)>>)
>>

\* How many wrappers a document holds at most.
MaxWrappers == 2

WrapperChoices ==
    {s \in UNION {[1..n -> 1..Len(Wrappers)] : n \in 0..MaxWrappers} :
        \A i, j \in 1..Len(s) : i # j => s[i] # s[j]}

ContainerDocs == {Document([k \in 1..Len(s) |-> Wrappers[s[k]]]) : s \in WrapperChoices}

InitContainers == InitOn(ContainerDocs)

SpecContainers == InitContainers /\ [][Next]_vars

\* The element querySelector finds for the k-th of '.body.markup',
\* '.post.typography .body', '.markup', 'body'.
SelectorMatches(d, k) ==
    CASE k = 1 -> {i \in Elements(d) : {"body", "markup"} \subseteq d[i].cls}
      [] k = 2 -> {i \in Elements(d) :
                      /\ "body" \in d[i].cls
                      /\ \E a \in Elements(d) :
                             {"post", "typography"} \subseteq d[a].cls /\ IsAncestor(d, a, i)}
      [] k = 3 -> {i \in Elements(d) : "markup" \in d[i].cls}
      [] k = 4 -> {Body(d)}

\* The container C11 describes: of the four selectors' elements, the first
\* that exists and has text that is not blank; the body when there is none.
ClaimedContainer(d) ==
    LET good == {k \in 1..4 :
                    /\ SelectorMatches(d, k) # {}
                    /\ ~AllIn(TextOf(d, Min(SelectorMatches(d, k))), WhiteSpace)}
    IN  IF good = {} THEN Body(d) ELSE Min(SelectorMatches(d, Min(good)))

\* C11: htmlToMarkdown takes as content container the first of
\* '.body.markup', '.post.typography .body', '.markup', body that exists and
\* has non-blank text, and the body when none has; the blocks it renders are
\* those of that container and of no other part of the document.
C11_ContentContainer ==
    \A c \in Calls : Extracted(c) =>
        LET d == doc[c]
            container == ClaimedContainer(d)
        IN  /\ contentContainerOf(d) = container
            /\ BodyOf(c) = Trim(extractContentInOrder(d, container))
            /\ \A e \in Elements(d) :
                   (d[e].tag = "p" /\ ~IsAncestor(d, container, e))
                       => ~Includes(BodyOf(c), TextOf(d, e))

\* A document whose '.body.markup' is blank and whose '.markup' further on
\* has text has been converted: the container is not the first selector's.
C11_Witness ==
    /\ pc[1] = "returned"
    /\ LET d == doc[1]
       IN  /\ SelectorMatches(d, 1) # {}
           /\ AllIn(TextOf(d, Min(SelectorMatches(d, 1))), WhiteSpace)
           /\ ClaimedContainer(d) \notin SelectorMatches(d, 1) \cup {Body(d)}
           /\ Truthy(BodyOf(1))

----------------------------------------------------------------------------
(* The header: documents with every mix of title, subtitle, author, date   *)
(* and read-in-app link                                                    *)

W_Subtitle == <<"L", "e", "d", "e">>

\* The anchor that reads READ IN APP comes before the one whose href holds
\* redirect=app-store.
HeaderParts == <<
    El("h1", {}, {}, <<Tx(W_Title)>>),
    El("h3", {"subtitle"}, {}, <<Tx(W_Subtitle)>>),
    El("span", {}, {<<"data-component-name", AuthorWord>>}, <<Tx(W_Ann)>>),
    El("time", {}, {}, <<Tx(W_May)>>),
    El("p", {}, {}, <<El("a", {}, {}, <<Tx(ReadInApp)>>)>>),
    El("p", {}, {}, <<El("a", {}, {<<"href", HostApp \o RedirectAppStore>>}, <<Tx(W_Open)>>)>>),
    P(W_Para)
>>

\* The parts of ks, in the order of HeaderParts.
PartsOf(ks) ==
    LET order == SortedSeq(ks)
    IN  [k \in 1..Len(order) |-> HeaderParts[order[k]]]

HeaderDocs == {Document(PartsOf(ks)) : ks \in SUBSET (1..Len(HeaderParts))}

InitHeader == InitOn(HeaderDocs)

SpecHeader == InitHeader /\ [][Next]_vars

\* What the header shows of each field that is found: the title line, the
\* subtitle line, the byline's label, the emoji of the read-in-app link.
FieldsFound(d) ==
    {<<"#", " ">> \o Trim(TextOf(d, e)) \o <<"\n", "\n">> : e \in {First(TitleElements(d))} \ {NullEl}}
        \cup {<<"*">> \o Trim(TextOf(d, e)) \o <<"*", "\n", "\n">> :
                 e \in {First(SubtitleElements(d))} \ {NullEl}}
        \cup (IF AuthorElements(d) \cup TimeElements(d) # {} THEN {AuthorLabel} ELSE {})
        \cup (IF readInAppLink(d) # NullEl THEN {Phone} ELSE {})

Rule == <<"-", "-", "-">>

\* C12: the header ends with the divider "---\n\n" whichever of title,
\* subtitle, byline and read-in-app link were found, none included; the
\* divider comes after every header field and before every body block.
C12_DividerEndsHeader ==
    \A c \in Calls :
        LET d == doc[c]
            md == markdown[c]
            at == IndexOf(md, Rule)
        IN  /\ pc[c] = "header" =>
                   /\ OccursAt(md, Divider, Len(md) - Len(Divider) + 1)
                   /\ at = Len(md) - Len(Divider) + 1
                   /\ \A f \in FieldsFound(d) : Includes(SubSeq(md, 1, at - 1), f)
            /\ Extracted(c) =>
                   /\ at > 0
                   /\ \A f \in FieldsFound(d) : Includes(SubSeq(md, 1, at - 1), f)
                   /\ \A e \in topLevelElements(d, contentContainerOf(d)) :
                          LET block == Trim(blockOf(d, e))
                          IN  Truthy(block) =>
                                  /\ Includes(SubSeq(md, at + Len(Rule), Len(md)), block)
                                  /\ Truthy(SubSeq(md, at + Len(Rule), Len(md)))
                                         => OccursAt(md, Divider, at)

\* The header of a document without title, subtitle, author, date or
\* read-in-app link has been written, and is the divider alone.
C12_Witness ==
    /\ pc[1] = "header"
    /\ FieldsFound(doc[1]) = {}
    /\ markdown[1] = Divider
    /\ topLevelElements(doc[1], contentContainerOf(doc[1])) # {}

\* The header of a document with all four fields has been written.
C12_AllFields ==
    /\ pc[1] = "header"
    /\ Cardinality(FieldsFound(doc[1])) = 4

\* The elements whose text the header shows as title and as subtitle.
HeaderElements(d) == {First(TitleElements(d)), First(SubtitleElements(d))} \ {NullEl}

\* C26: an element whose text the header shows as title (h1, .post-title) or
\* as subtitle (h3.subtitle, .subtitle) is not rendered a second time as a
\* block of the body, also when it lies inside the content container.
C26_HeaderNotRepeated ==
    \A c \in Calls :
        Extracted(c) =>
            \A e \in HeaderElements(doc[c]) :
                /\ ~(e \in topLevelElements(doc[c], contentContainerOf(doc[c]))
                         /\ Truthy(blockOf(doc[c], e)))
                /\ Occurrences(markdown[c], Trim(TextOf(doc[c], e))) = 1

\* The h1 that gives the title is never a block of the body.
C26_TitleH1 ==
    \A c \in Calls :
        Extracted(c) =>
            \A e \in HeaderElements(doc[c]) :
                doc[c][e].tag = "h1" =>
                    /\ e \notin topLevelElements(doc[c], contentContainerOf(doc[c]))
                    /\ Occurrences(markdown[c], Trim(TextOf(doc[c], e))) = 1

----------------------------------------------------------------------------
(* The byline: documents with every mix of author element (by attribute,   *)
(* by class, with and without text) and time element                       *)

AuthorKids == {
    <<>>,
    <<El("span", {}, {<<"data-component-name", AuthorWord>>}, <<Tx(W_Ann)>>)>>,
    <<El("span", {}, {<<"data-component-name", AuthorWord>>}, <<>>)>>,
    <<El("div", {"meta-EgzBVA"}, {}, <<El("a", {}, {}, <<Tx(<<" ">> \o W_Ann \o <<"\n">>)>>)>>)>>,
    <<El("span", {}, {<<"data-component-name", AuthorWord>>}, <<Tx(W_A)>>),
      El("span", {}, {<<"data-component-name", AuthorWord>>}, <<Tx(W_Ann)>>)>>
}

TimeKids == {
    <<>>,
    <<El("time", {}, {}, <<Tx(W_May)>>)>>,
    <<El("time", {}, {}, <<>>)>>,
    <<El("p", {}, {}, <<El("time", {}, {}, <<Tx(<<" ">> \o W_May)>>)>>)>>
}

TitleKids == {<<>>, <<El("h1", {}, {}, <<Tx(W_Title)>>)>>}

\* The time element before or after the author element.
BylineDocs ==
    {Document(t \o a \o m \o <<P(W_Para)>>) : t \in TitleKids, a \in AuthorKids, m \in TimeKids}
        \cup {Document(m \o a \o <<P(W_Para)>>) : a \in AuthorKids, m \in TimeKids}

InitByline == InitOn(BylineDocs)

SpecByline == InitByline /\ [][Next]_vars

\* The byline as stated: the label and the author's text, "Unknown" when
\* only a date is there, the date after its label, two newlines.
ClaimedByline(d) ==
    LET hasAuthor == AuthorElements(d) # {}
        hasDate == TimeElements(d) # {}
        authorText == Trim(TextOf(d, Min(AuthorElements(d))))
        dateText == Trim(TextOf(d, Min(TimeElements(d))))
    IN  CASE hasAuthor /\ hasDate ->
                 AuthorLabel \o authorText \o DateLabel \o dateText \o <<"\n", "\n">>
          [] hasAuthor /\ ~hasDate -> AuthorLabel \o authorText \o <<"\n", "\n">>
          [] ~hasAuthor /\ hasDate ->
                 AuthorLabel \o Unknown \o DateLabel \o dateText \o <<"\n", "\n">>
          [] OTHER -> <<>>

\* C21: the byline is emitted iff an author element or a time element is
\* present: "**Author:** " and the author's text, or "Unknown" when only the
\* date is present, then " | **Date:** " and the date's text iff a time
\* element is present, then two newlines; when neither is present the
\* header holds no byline text.
C21_Byline ==
    \A c \in Calls :
        pc[c] \in {"header", "converted", "returned"} =>
            LET d == doc[c]
                md == markdown[c]
                before == titleMarkdown(d) \o subtitleMarkdown(d)
                byline == ClaimedByline(d)
                head == SubSeq(md, 1, IndexOf(md, Rule) - 1)
            IN  /\ head = before \o byline \o readInAppMarkdown(d)
                /\ Includes(head, AuthorLabel)
                       <=> AuthorElements(d) \cup TimeElements(d) # {}
                /\ Includes(head, DateLabel) <=> TimeElements(d) # {}
                /\ Includes(head, Unknown)
                       <=> AuthorElements(d) = {} /\ TimeElements(d) # {}

\* The header of a document with a date and no author has been written, and
\* names the author "Unknown".
C21_Witness ==
    /\ pc[1] = "header"
    /\ AuthorElements(doc[1]) = {}
    /\ TimeElements(doc[1]) # {}
    /\ Includes(markdown[1], AuthorLabel \o Unknown \o DateLabel \o W_May \o <<"\n", "\n">>)

\* The header of a document whose author element has no text has been
\* written: the label is followed by nothing.
C21_WitnessEmptyAuthor ==
    /\ pc[1] = "header"
    /\ AuthorElements(doc[1]) # {}
    /\ TextOf(doc[1], Min(AuthorElements(doc[1]))) = <<>>
    /\ Includes(markdown[1], AuthorLabel \o DateLabel)

----------------------------------------------------------------------------
(* The read-in-app link: documents with up to two anchors, found by href,  *)
(* by text, by both or by neither                                          *)

W_Get == <<"G", "e", "t">>
W_page == <<"p", "a", "g", "e">>
ReadInAppMixed == <<" ", "R", "e", "a", "d", " ", "i", "n", " ", "a", "p", "p", "\n">>

AnchorKinds == {
    El("a", {}, {<<"href", HostApp \o RedirectAppStore>>}, <<Tx(W_Open)>>),
    El("a", {}, {<<"href", HostOther \o RedirectAppStore>>}, <<Tx(<<" ">> \o W_Get \o <<" ">>)>>),
    El("a", {}, {<<"href", HostOther \o W_page>>}, <<Tx(ReadInApp)>>),
    El("a", {}, {<<"href", HostApp \o W_page>>}, <<El("span", {}, {}, <<Tx(ReadInAppMixed)>>)>>),
    El("a", {}, {}, <<Tx(ReadInApp)>>),
    El("a", {}, {<<"href", HostOther>>}, <<Tx(W_Like)>>)
}

AnchorDocs ==
    {Document(<<P(W_Para)>>)}
        \cup {Document(<<El("p", {}, {}, <<a>>), P(W_Para)>>) : a \in AnchorKinds}
        \cup {Document(<<El("p", {}, {}, <<a>>), P(W_Para), El("p", {}, {}, <<b>>)>>) :
                 a \in AnchorKinds, b \in AnchorKinds}

InitAnchors == InitOn(AnchorDocs)

SpecAnchors == InitAnchors /\ [][Next]_vars

\* The anchor as stated: the first whose href contains redirect=app-store,
\* and only without one the first whose uppercased text reads READ IN APP.
ClaimedLink(d) ==
    LET byHref == {a \in Anchors(d) :
                      \E at \in d[a].attrs : at[1] = "href" /\ Includes(at[2], RedirectAppStore)}
        byText == {a \in Anchors(d) : Includes(toUpperCase(TextOf(d, a)), ReadInApp)}
    IN  IF byHref # {} THEN Min(byHref)
        ELSE IF byText # {} THEN Min(byText)
        ELSE NullEl

LinkLine(d, a, href) ==
    Phone \o <<" ", "[">> \o Trim(TextOf(d, a)) \o <<"]", "(">> \o href \o <<")", "\n", "\n">>

\* The header of call c: markdown[c] up to the divider.
HeaderOf(c) == SubSeq(markdown[c], 1, IndexOf(markdown[c], Rule) - 1)

HeaderWritten(c) == pc[c] \in {"header", "converted", "returned"}

\* C22: the read-in-app link is the first anchor whose href contains
\* "redirect=app-store"; only without one, the first anchor in document order
\* whose uppercased text contains "READ IN APP"; when one is found the header
\* contains the emoji, "[text](href)" and two newlines, with that anchor's
\* trimmed text and its href; when none is found there is no such line.
C22_ReadInAppLink ==
    \A c \in Calls :
        HeaderWritten(c) =>
            LET d == doc[c]
                a == ClaimedLink(d)
            IN  IF a # NullEl
                THEN \E at \in d[a].attrs :
                         at[1] = "href" /\ Includes(HeaderOf(c), LinkLine(d, a, at[2]))
                ELSE ~Includes(HeaderOf(c), Phone)

\* C22 for the anchors that have an href; the anchor found by its text that
\* has none gets the line too, with "null" where the href goes.
C22_LinkWithHref ==
    \A c \in Calls :
        HeaderWritten(c) =>
            LET d == doc[c]
                a == ClaimedLink(d)
            IN  /\ Occurrences(HeaderOf(c), Phone) = (IF a # NullEl THEN 1 ELSE 0)
                /\ a # NullEl =>
                       IF \E at \in d[a].attrs : at[1] = "href"
                       THEN \E at \in d[a].attrs :
                                at[1] = "href" /\ Includes(HeaderOf(c), LinkLine(d, a, at[2]))
                       ELSE Includes(HeaderOf(c), LinkLine(d, a, <<"n", "u", "l", "l">>))

\* The header of a document whose second anchor has redirect=app-store in
\* its href and whose first reads READ IN APP has been written: the link is
\* the second anchor.
C22_HrefBeforeText ==
    /\ pc[1] = "header"
    /\ \E a, b \in Anchors(doc[1]) :
           /\ a < b
           /\ Includes(toUpperCase(TextOf(doc[1], a)), ReadInApp)
           /\ ClaimedLink(doc[1]) = b
           /\ Includes(markdown[1], LinkLine(doc[1], b, HostApp \o RedirectAppStore))

----------------------------------------------------------------------------
(* Inline code: a paragraph or a list item holding one code element        *)

CodeTexts == {
    <<"a">>, <<"a", " ", "b">>, <<"a", " ", " ", "b">>, <<"a", " ", "?", " ", "b", " ", ":", " ", "c">>, <<"f", "(", "a", " ", ",", " ", "b", ")">>, <<"a", ".", "b">>, <<"a", " ", "\n", "b">>, <<"x", " ", ";">>
}

CodeKids ==
    {pre \o <<El("code", {}, {}, <<Tx(t)>>)>> \o post :
        pre \in {<<>>, <<Tx(<<"x", " ">>)>>},
        post \in {<<>>, <<Tx(<<" ", "y">>)>>},
        t \in CodeTexts}

CodeDocs ==
    {Document(<<El("p", {}, {}, kids)>>) : kids \in CodeKids}
        \cup {Document(<<El("ul", {}, {}, <<Li(kids)>>)>>) : kids \in CodeKids}

InitCode == InitOn(CodeDocs)

SpecCode == InitCode /\ [][Next]_vars

\* The code elements of d whose text neither starts nor ends with whitespace.
CodeElements(d) ==
    {e \in Elements(d) : d[e].tag = "code" /\ Trim(TextOf(d, e)) = TextOf(d, e)}

Quoted(t) == <<Backtick>> \o t \o <<Backtick>>

\* C24: the text of an inline code element reaches what
\* convertHtmltoMarkdown returns verbatim between its backticks, also when
\* it has whitespace before one of , . ! ? ; : as in "a ? b : c".
C24_CodeVerbatim ==
    \A c \in Calls :
        pc[c] = "returned" =>
            \A e \in CodeElements(doc[c]) : Includes(out[c], Quoted(TextOf(doc[c], e)))

\* Before cleanMarkdown the text of every code element is between its
\* backticks, unchanged.
C24_CodeBeforeClean ==
    \A c \in Calls :
        pc[c] = "converted" =>
            \A e \in CodeElements(doc[c]) :
                Includes(markdown[c], Quoted(TextOf(doc[c], e)))

----------------------------------------------------------------------------
(* Footnotes: elements of class footnote, of several tags, with and        *)
(* without their number and their content                                  *)

FootnoteTags == {"div", "section", "aside"}

FootnoteNumber == El("a", {"footnote-number"}, {}, <<Tx(W_1)>>)
FootnoteContent == El("div", {"footnote-content"}, {}, <<P(W_Note)>>)

FootnoteKids == {<<FootnoteNumber, FootnoteContent>>, <<FootnoteContent>>,
                 <<FootnoteNumber>>, <<P(W_Quote)>>}

FootnoteElements == {El(tag, {"footnote"}, {}, kids) : tag \in FootnoteTags, kids \in FootnoteKids}

FootnoteDocs ==
    UNION {{Document(<<f>>), Document(<<P(W_Para), f>>), Document(<<f, P(W_Para)>>)} :
              f \in FootnoteElements}

InitFootnotes == InitOn(FootnoteDocs)

SpecFootnotes == InitFootnotes /\ [][Next]_vars

\* The footnote elements rendered as blocks.
RenderedFootnotes(d) ==
    {e \in topLevelElements(d, contentContainerOf(d)) : HasClass(d, e, "footnote")}

\* "[^{number}]: {content}"
FootnoteLine(d, num, cont) ==
    <<"[", "^">> \o TextOf(d, num) \o <<"]", ":", " ">> \o Trim(TextOf(d, cont))

\* C15: a top-level element of class footnote, whatever its tag, emits
\* "[^{number}]: {content}\n\n" when it has a .footnote-number and a
\* .footnote-content descendant and nothing when it misses one; and no
\* paragraph inside a footnote element is rendered as a block of its own.
C15_Footnotes ==
    \A c \in Calls : Extracted(c) =>
        LET d == doc[c]
        IN  /\ \A e \in RenderedFootnotes(d) :
                   LET num == First({i \in Descendants(d, e) : HasClass(d, i, "footnote-number")})
                       cont == First({i \in Descendants(d, e) : HasClass(d, i, "footnote-content")})
                   IN  IF num # NullEl /\ cont # NullEl
                       THEN /\ blockOf(d, e) = FootnoteLine(d, num, cont) \o <<"\n", "\n">>
                            /\ Includes(BodyOf(c), FootnoteLine(d, num, cont))
                       ELSE /\ blockOf(d, e) = <<>>
                            /\ ~Includes(BodyOf(c), <<"[", "^">>)
            /\ \A p \in Elements(d) :
                   (d[p].tag = "p" /\ Closest(d, p, Footnotes(d)))
                       => /\ p \notin topLevelElements(d, contentContainerOf(d))
                          /\ Occurrences(BodyOf(c), TextOf(d, p)) <= 1

\* The same, for the footnote elements that are div.
C15_DivFootnotes ==
    (\A c \in Calls : \A e \in RenderedFootnotes(doc[c]) : doc[c][e].tag = "div")
        => C15_Footnotes

----------------------------------------------------------------------------
(* Figures: with and without img, with each kind of caption                *)

W_Fig == <<"F", "i", "g">>

\* No caption, a figcaption, a .image-caption, a .caption, an empty
\* figcaption, and a .caption before a figcaption.
CaptionKids == {
    <<>>,
    <<El("figcaption", {}, {}, <<Tx(W_Cap)>>)>>,
    <<El("div", {"image-caption"}, {}, <<Tx(W_In)>>)>>,
    <<El("div", {"caption"}, {}, <<Tx(<<" ">> \o W_Sib \o <<" ">>)>>)>>,
    <<El("figcaption", {}, {}, <<>>)>>,
    <<El("div", {"caption"}, {}, <<Tx(W_Sib)>>), El("figcaption", {}, {}, <<Tx(W_Cap)>>)>>
}

\* No img, one img of each mix of attributes, and a filtered img before one
\* that is not.
FigureImgs ==
    {<<>>}
        \cup {<<El("img", {}, attrs, <<>>)>> : attrs \in ImgAttributes}
        \cup {<<El("img", {}, {<<"src", Src_a>>, <<"height", <<"1">>>>}, <<>>), Img(Src_c)>>,
              <<El("div", {}, {}, <<Img(Src_d)>>), Img(Src_e)>>}

FigureDocs ==
    {Document(<<El("figure", {}, {}, imgs \o caption)>>) :
         imgs \in FigureImgs, caption \in CaptionKids}

InitFigures == InitOn(FigureDocs)

SpecFigures == InitFigures /\ [][Next]_vars

RenderedFigures(d) ==
    {e \in topLevelElements(d, contentContainerOf(d)) : d[e].tag = "figure"}

\* "\n*caption*" for the first figcaption, .image-caption or .caption in the
\* figure, nothing without one.
CaptionLine(d, figure) ==
    LET captions == {i \in Descendants(d, figure) :
                        \/ d[i].tag = "figcaption"
                        \/ "image-caption" \in d[i].cls
                        \/ "caption" \in d[i].cls}
    IN  IF captions = {} THEN <<>>
        ELSE <<"\n", "*">> \o Trim(TextOf(d, Min(captions))) \o <<"*">>

\* C17 as written: a figure emits nothing when it has no img; otherwise the
\* image rule's rendering of its first img, then "\n*caption*" when there is
\* a caption, then "\n\n".
C17_FigureClaimed ==
    \A c \in Calls : Extracted(c) =>
        \A e \in RenderedFigures(doc[c]) :
            LET d == doc[c]
            IN  blockOf(d, e) =
                    IF Imgs(d, e) = {} THEN <<>>
                    ELSE processImage(d, Min(Imgs(d, e))) \o CaptionLine(d, e) \o <<"\n", "\n">>

\* C17, amended: a figure emits nothing when it has no img and also when the
\* image rule returns '' for its first img; otherwise the rendering of that
\* img, then "\n*caption*" when there is a caption, then "\n\n"; and that is
\* the body of a document made of the figure.
C17_Figure ==
    \A c \in Calls : Extracted(c) =>
        \A e \in RenderedFigures(doc[c]) :
            LET d == doc[c]
                block == IF Imgs(d, e) = {} \/ processImage(d, Min(Imgs(d, e))) = <<>>
                         THEN <<>>
                         ELSE processImage(d, Min(Imgs(d, e))) \o CaptionLine(d, e)
                                  \o <<"\n", "\n">>
            IN  /\ blockOf(d, e) = block
                /\ BodyOf(c) = Trim(block)

\* A figure whose first img is filtered and which has a caption has been
\* converted, and nothing of it is in the result.
C17_Witness ==
    /\ pc[1] = "returned"
    /\ \E e \in RenderedFigures(doc[1]) :
           /\ Imgs(doc[1], e) # {}
           /\ processImage(doc[1], Min(Imgs(doc[1], e))) = <<>>
           /\ CaptionLine(doc[1], e) # <<>>
    /\ out[1] = Rule

----------------------------------------------------------------------------
(* Bold: strong and b around each kind of children, in a paragraph and in  *)
(* a list item                                                             *)

W_x == <<"x">>
W_y == <<"y">>

\* The children of the bold element, and what they render to.
BoldKids == <<
    <<<<>>, <<>>>>,
    <<<<Tx(W_world)>>, W_world>>,
    <<<<Tx(<<" ", "a", " ">>)>>, <<" ", "a", " ">>>>,
    <<<<Tx(<<" ">>)>>, <<" ">>>>,
    <<<<Tx(<<".", " ">>)>>, <<".", " ">>>>,
    <<<<Tx(<<"a", ".", " ">>)>>, <<"a", ".", " ">>>>,
    <<<<El("em", {}, {}, <<Tx(<<" ", "a", " ">>)>>)>>, <<" ", "*", "a", "*", " ">>>>,
    <<<<El("b", {}, {}, <<Tx(W_A)>>)>>, <<"*", "*", "A", "*", "*">>>>,
    <<<<Tx(W_one), El("br", {}, {}, <<>>), Tx(W_two)>>, W_one \o <<"\n">> \o W_two>>,
    <<<<Comment(W_Note)>>, <<>>>>
>>

\* x<tag>kids</tag>y, in a paragraph or in the item of a list
BoldDoc(tag, place, kids) ==
    LET inline == <<Tx(W_x), El(tag, {}, {}, kids), Tx(W_y)>>
    IN  IF place = "p" THEN Document(<<El("p", {}, {}, inline)>>)
        ELSE Document(<<El("ul", {}, {}, <<Li(inline)>>)>>)

BoldDocs ==
    {BoldDoc(tag, place, BoldKids[k][1]) :
         tag \in {"strong", "b"}, place \in {"p", "li"}, k \in 1..Len(BoldKids)}

InitBold == InitOn(BoldDocs)

SpecBold == InitBold /\ [][Next]_vars

\* The bold elements that are not inside another.
BoldElements(d) ==
    {i \in Elements(d) : d[i].tag \in {"strong", "b"} /\ d[d[i].parent].tag \in {"p", "li"}}

\* C19: strong and b return "**" + the rendering of their children + "**",
\* "****" when that rendering is empty, with none of the adjustments of
\* whitespace and punctuation em and i make; between x and y, that is what
\* the paragraph or the list item holds.
C19_BoldAlwaysWraps ==
    \A c \in Calls : pc[c] # "off" =>
        \A tag \in {"strong", "b"}, place \in {"p", "li"}, k \in 1..Len(BoldKids) :
            doc[c] = BoldDoc(tag, place, BoldKids[k][1]) =>
                LET d == doc[c]
                    bold == <<"*", "*">> \o BoldKids[k][2] \o <<"*", "*">>
                IN  /\ \A b \in BoldElements(d) :
                           LET kids == ChildNodes(d, b)
                           IN  /\ processNode(d, b) = bold
                               /\ processNode(d, b)
                                      = <<"*", "*">>
                                            \o Flat([j \in 1..Len(kids) |-> processNode(d, kids[j])])
                                            \o <<"*", "*">>
                    /\ Extracted(c) => Includes(BodyOf(c), W_x \o bold \o W_y)

\* A paragraph with an empty strong has been converted: "x****y".
C19_Witness ==
    /\ pc[1] = "converted"
    /\ \E b \in BoldElements(doc[1]) : ChildNodes(doc[1], b) = <<>>
    /\ BodyOf(1) = <<"x", "*", "*", "*", "*", "y">>

----------------------------------------------------------------------------
(* Two conversions, their steps interleaved                                *)

PairDocs == {Document(<<Palette[k]>>) : k \in 1..Len(Palette)} \cup {DocEndToEnd}

InitPair ==
    /\ doc \in [Calls -> PairDocs]
    /\ pc = [c \in Calls |-> "parsed"]
    /\ markdown = [c \in Calls |-> <<>>]
    /\ out = [c \in Calls |-> <<>>]
    /\ FnIdle
    /\ PluginIdle

SpecPair == InitPair /\ [][Next]_vars

\* C9: convertHtmltoMarkdown is a pure function of its input: what a call
\* returns is the function of its own document alone, whatever the other
\* call has done or is doing, so two calls on the same document return the
\* same string; and no step changes a document.
C9_Pure ==
    /\ [](\A c \in Calls :
              /\ pc[c] = "returned" => out[c] = convertHtmltoMarkdown(doc[c])
              /\ \A o \in Calls :
                     (pc[c] = "returned" /\ pc[o] = "returned" /\ doc[c] = doc[o])
                         => out[c] = out[o])
    /\ [][doc' = doc]_vars

\* Both calls have returned, each on the same document and with the same
\* string.
C9_Witness ==
    /\ pc[1] = "returned" /\ pc[2] = "returned"
    /\ doc[1] = doc[2]
    /\ doc[1] = DocEndToEnd
    /\ out[1] = out[2]

----------------------------------------------------------------------------
(* The function harness: cleanMarkdown on every short string               *)

MaxCleanLen == 5
CleanAlphabet == {"a", " ", "\n", ".", "-", ">"}

\* '- item', '*  item', '+ item', and 'a\n \n\nb': the text of
\* <p>a<br> <br><br>b</p>
CleanExamples == {<<"-", " ", "i", "t", "e", "m">>, <<"*", " ", " ", "i", "t", "e", "m">>, <<"+", " ", "i", "t", "e", "m">>,
                  <<"a", "\n", " ", "\n", "\n", "b">>}

ConvIdle ==
    /\ doc = [c \in Calls |-> <<>>]
    /\ pc = [c \in Calls |-> "off"]
    /\ markdown = [c \in Calls |-> <<>>]
    /\ out = [c \in Calls |-> <<>>]

InitClean ==
    /\ ConvIdle
    /\ PluginIdle
    /\ fnIn \in StringsUpTo(CleanAlphabet, MaxCleanLen) \cup CleanExamples
    /\ fnOut = <<>>
    /\ fnOut2 = <<>>
    /\ fnPc = "clean"

\* cleanMarkdown(markdown)
CleanOnce ==
    /\ fnPc = "clean"
    /\ fnOut' = cleanMarkdown(fnIn)
    /\ fnPc' = "cleaned"
    /\ UNCHANGED <<fnIn, fnOut2, convVars, pluginVars>>

\* cleanMarkdown applied to its own result
CleanAgain ==
    /\ fnPc = "cleaned"
    /\ fnOut2' = cleanMarkdown(fnOut)
    /\ fnPc' = "cleanedTwice"
    /\ UNCHANGED <<fnIn, fnOut, convVars, pluginVars>>

NextClean == CleanOnce \/ CleanAgain

SpecClean == InitClean /\ [][NextClean]_vars

\* C3: cleanMarkdown is idempotent: cleaning a cleaned string changes nothing.
C3_CleanIdempotent == fnPc = "cleanedTwice" => fnOut2 = fnOut

\* A bulleted line: a marker, one space or more, and an item of letters.
ItemLetters == {"a", "i", "t", "e", "m"}

IsBulletLine(s) ==
    /\ Len(s) >= 3
    /\ s[1] \in BulletMarkers
    /\ RunLen(s, 2, {" "}) >= 1
    /\ 2 + RunLen(s, 2, {" "}) <= Len(s)
    /\ \A i \in (2 + RunLen(s, 2, {" "}))..Len(s) : s[i] \in ItemLetters

\* The line with one space between the marker and the item.
WithOneSpace(s) == <<s[1], " ">> \o SubSeq(s, 2 + RunLen(s, 2, {" "}), Len(s))

\* C13: after cleanMarkdown a line that starts with a bullet marker and one
\* or more spaces has exactly one space between the marker and the item:
\* several spaces are collapsed to one, and "- item" stays "- item".
C13_OneSpaceAfterBullet ==
    (fnPc \in {"cleaned", "cleanedTwice"} /\ IsBulletLine(fnIn))
        => fnOut = WithOneSpace(fnIn)

\* C14: what cleanMarkdown returns never holds three newlines in a row, also
\* when they come together only once the spaces and tabs that end the lines
\* between them are stripped.
C14_NoTripleNewline ==
    fnPc \in {"cleaned", "cleanedTwice"} => ~Includes(fnOut, <<"\n", "\n", "\n">>)

----------------------------------------------------------------------------
(* The function harness: handleEmphasisFormatting on every short content   *)

MaxEmLen == 4
EmAlphabet == {"a", " ", "\n", ".", "-", "*"}
Markers == {<<"*">>, <<"*", "*">>}

\* ' . ', ' word. ', ' hello world. '
EmExamples == {<<" ", ".", " ">>, <<" ", "w", "o", "r", "d", ".", " ">>, <<" ", "h", "e", "l", "l", "o", " ", "w", "o", "r", "l", "d", ".", " ">>}

InitEmphasis ==
    /\ ConvIdle
    /\ PluginIdle
    /\ fnIn \in [content : StringsUpTo(EmAlphabet, MaxEmLen) \cup EmExamples,
                 marker : Markers]
    /\ fnOut = <<>>
    /\ fnOut2 = <<>>
    /\ fnPc = "emphasis"

\* handleEmphasisFormatting(content, marker)
Emphasize ==
    /\ fnPc = "emphasis"
    /\ fnOut' = handleEmphasisFormatting(fnIn.content, fnIn.marker)
    /\ fnPc' = "emphasized"
    /\ UNCHANGED <<fnIn, fnOut2, convVars, pluginVars>>

\* case 'em', 'i', once the children are rendered to content
EmphasisRule ==
    /\ fnPc = "emphasized"
    /\ fnOut2' = processEmphasis(fnIn.content)
    /\ fnPc' = "ruled"
    /\ UNCHANGED <<fnIn, fnOut, convVars, pluginVars>>

NextEmphasis == Emphasize \/ EmphasisRule

SpecEmphasis == InitEmphasis /\ [][NextEmphasis]_vars

\* result is what C7 describes for content: content splits into its leading
\* whitespace, a core and a trail of whitespace and punctuation that takes
\* the whitespace content ends with; result is content when the core is
\* empty or only punctuation, dashes and whitespace, and lead + marker + core
\* + marker + trail otherwise.
SplitsAsClaimed(content, marker, result) ==
    LET n == Len(content)
        a == RunLen(content, 1, WhiteSpace)
        lead == SubSeq(content, 1, a)
    IN  \E t \in 0..(n - a) :
            LET core == SubSeq(content, a + 1, n - t)
                trail == SubSeq(content, n - t + 1, n)
            IN  /\ AllIn(trail, WhiteSpace \cup EmphasisPunct)
                /\ IF AllIn(core, EmphasisPunct \cup WhiteSpace)
                   THEN result = content
                   ELSE /\ core = Trim(core)
                        /\ result = lead \o marker \o core \o marker \o trail

\* C7: handleEmphasisFormatting splits content into lead, core and trail;
\* it returns content unmodified when the trimmed core is empty or only
\* punctuation, dashes and whitespace, and lead + marker + core + marker +
\* trail otherwise: " . " stays " . ", " word. " gives " *word*. " and
\* " hello world. " gives " *hello world*. ".
C7_EmphasisSplit ==
    fnPc = "emphasized" =>
        /\ SplitsAsClaimed(fnIn.content, fnIn.marker, fnOut)
        /\ (fnIn.content = <<" ", ".", " ">>) => fnOut = <<" ", ".", " ">>
        /\ (fnIn.content = <<" ", "w", "o", "r", "d", ".", " ">> /\ fnIn.marker = <<"*">>) => fnOut = <<" ", "*", "w", "o", "r", "d", "*", ".", " ">>
        /\ (fnIn.content = <<" ", "h", "e", "l", "l", "o", " ", "w", "o", "r", "l", "d", ".", " ">> /\ fnIn.marker = <<"*">>)
               => fnOut = <<" ", "*", "h", "e", "l", "l", "o", " ", "w", "o", "r", "l", "d", "*", ".", " ">>

\* The same, for the contents that hold no line terminator.
C7_OnOneLine ==
    (\A i \in 1..Len(fnIn.content) : fnIn.content[i] \notin LineTerminators)
        => C7_EmphasisSplit

\* res is content between the two markers the rule adds: the first after
\* the leading whitespace, the second before a trail of whitespace and
\* punctuation, and what they hold is not empty and neither starts nor ends
\* with whitespace.
WrapsTightly(content, res) ==
    LET a == RunLen(content, 1, WhiteSpace)
        stars == {j \in (a + 3)..Len(res) :
                     /\ res[j] = "*"
                     /\ \A k \in (j + 1)..Len(res) : res[k] \in WhiteSpace \cup EmphasisPunct}
    IN  /\ Len(res) >= a + 3
        /\ SubSeq(res, 1, a) = SubSeq(content, 1, a)
        /\ res[a + 1] = "*"
        /\ res[a + 2] \notin WhiteSpace
        /\ stars # {}
        /\ res[Max(stars) - 1] \notin WhiteSpace

\* C18: the em/i rule only wraps a core that is not empty and neither starts
\* nor ends with whitespace: the '*' it opens with is never followed by
\* whitespace, the '*' it closes with never preceded by whitespace; content
\* that is all whitespace is returned as it is, without marker.
C18_TightEmphasis ==
    fnPc = "ruled" =>
        /\ AllIn(fnIn.content, WhiteSpace) => fnOut2 = fnIn.content
        /\ fnOut2 = fnIn.content \/ WrapsTightly(fnIn.content, fnOut2)

\* The rule has wrapped the core of a content that starts and ends with
\* whitespace.
C18_Witness ==
    /\ fnPc = "ruled"
    /\ fnIn.content = <<" ", "a", ".", " ">>
    /\ fnOut2 = <<" ", "*", "a", "*", ".", " ">>

\* The rule has returned a content of whitespace as it is.
C18_WitnessBlank ==
    /\ fnPc = "ruled"
    /\ fnIn.content = <<" ", "\n">>
    /\ fnOut2 = fnIn.content


\* res is content, or content with marker inserted at two places.
MarkersOnly(content, marker, res) ==
    \/ res = content
    \/ \E i \in 0..Len(content) :
           \E j \in i..Len(content) :
               res = SubSeq(content, 1, i) \o marker \o SubSeq(content, i + 1, j)
                         \o marker \o SubSeq(content, j + 1, Len(content))

\* C25: handleEmphasisFormatting only ever inserts markers: for every
\* content, line terminators included, and every marker the result is
\* content, or deleting the two inserted markers gives back content exactly;
\* no leading or trailing whitespace or punctuation of content is lost.
C25_OnlyInsertsMarkers ==
    /\ fnPc \in {"emphasized", "ruled"} => MarkersOnly(fnIn.content, fnIn.marker, fnOut)
    /\ fnPc = "ruled" => MarkersOnly(fnIn.content, <<"*">>, fnOut2)

\* The same, for the contents that hold no line terminator.
C25_OnOneLine ==
    (\A i \in 1..Len(fnIn.content) : fnIn.content[i] \notin LineTerminators)
        => C25_OnlyInsertsMarkers



----------------------------------------------------------------------------
(* The Gmail authorization of src/main.ts: initializeGoogleAuth asks       *)
(* getNewTokens for tokens; getNewTokens starts the mobile or the desktop  *)
(* flow, whose promise is settled by handleOAuthCallback, by the local     *)
(* HTTP server, by the modal's cancel button or by the timeout.  Each      *)
(* await is a point where the other handlers run.  An authorization code   *)
(* g is one Google issued for the challenge of flow g; the verifier and    *)
(* the state a flow generates are named by the flow.  The manual code      *)
(* entry of the waiting modal is left out.                                 *)

\* How many authorization flows start at most.
MaxFlows == 2
FlowIds == 1..MaxFlows

\* The calls of initializeGoogleAuth: listGmailMessages (main.ts:1292) and
\* the button of the settings tab (main.ts:1593).
Callers == {"sync", "settings"}

\* The handlers that await exchangeCodeForTokens.
Handlers == {"callback", "server"}

\* What the authorization leaves alone.
notAuth == <<convVars, fnVars, nostrVars>>

NoFlow == [kind |-> "none", at |-> "unused", timer |-> FALSE]
NoCall == [at |-> "idle", flow |-> 0, owner |-> FALSE]
NoExchange == [at |-> "idle", code |-> 0, verifier |-> 0, flow |-> 0]

InitAuth ==
    /\ ConvIdle
    /\ FnIdle
    /\ NostrIdle
    /\ isMobile \in BOOLEAN
    /\ unloaded = FALSE
    /\ authorizationInProgress = FALSE
    /\ authorizationPromise = 0
    /\ mobileAuthResolver = 0
    /\ mobileAuthRejecter = 0
    /\ mobileAuthModal = 0
    /\ settings = [pkce_verifier |-> 0, pkce_state |-> 0, access_token |-> 0]
    /\ flow = [f \in FlowIds |-> NoFlow]
    /\ caller = [c \in Callers |-> NoCall]
    /\ handler = [h \in Handlers |-> NoExchange]
    /\ server_ = 0
    /\ exchanged = {}

\* The flows whose promise is not settled.
ActiveFlows == {f \in FlowIds : flow[f].at \in {"started", "saving", "pending"}}

\* resolve or reject of the promise of flow f, 0 for a resolver that is
\* null; settling a settled promise changes nothing.  The wrappers of
\* main.ts:899-907 clear the timeout of their flow.
Settled(fl, f, outcome) ==
    IF f = 0 THEN fl
    ELSE IF fl[f].at = "pending"
    THEN [fl EXCEPT ![f].at = outcome, ![f].timer = FALSE]
    ELSE [fl EXCEPT ![f].timer = FALSE]

\* getNewTokens up to `await this.authorizationPromise` (main.ts:823-842):
\* the flow in progress is joined, or a flow starts and runs up to its first
\* await.
getNewTokens(c) ==
    IF authorizationInProgress /\ authorizationPromise # 0
    THEN /\ caller' = [caller EXCEPT ![c] = [at |-> "await", flow |-> authorizationPromise,
                                             owner |-> FALSE]]
         /\ UNCHANGED <<authorizationInProgress, authorizationPromise, flow>>
    ELSE /\ \E f \in FlowIds : flow[f].at = "unused"
         /\ LET f == Min({g \in FlowIds : flow[g].at = "unused"})
            IN  /\ authorizationInProgress' = TRUE
                /\ authorizationPromise' = f
                /\ flow' = [flow EXCEPT ![f] = [kind |-> IF isMobile THEN "mobile" ELSE "desktop",
                                                at |-> "started", timer |-> FALSE]]
                /\ caller' = [caller EXCEPT ![c] = [at |-> "await", flow |-> f,
                                                    owner |-> TRUE]]

\* initializeGoogleAuth without valid tokens (main.ts:1177-1199): it awaits
\* refreshAccessToken, or calls getNewTokens at once.
Call(c) ==
    /\ ~unloaded
    /\ caller[c].at = "idle"
    /\ settings.access_token = 0
    /\ \/ /\ caller' = [caller EXCEPT ![c].at = "refresh"]
          /\ UNCHANGED <<authorizationInProgress, authorizationPromise, flow>>
       \/ getNewTokens(c)
    /\ UNCHANGED <<isMobile, unloaded, mobileAuthResolver, mobileAuthRejecter,
                   mobileAuthModal, settings, handler, server_, exchanged, notAuth>>

\* refreshAccessToken returned false (main.ts:1187-1199).
RefreshFailed(c) ==
    /\ caller[c].at = "refresh"
    /\ getNewTokens(c)
    /\ UNCHANGED <<isMobile, unloaded, mobileAuthResolver, mobileAuthRejecter,
                   mobileAuthModal, settings, handler, server_, exchanged, notAuth>>

\* The flow after generatePKCEChallenge: the verifier and the state are
\* stored and saveSettings is awaited (main.ts:852-858, 968-974).
FlowStoresPkce(f) ==
    /\ flow[f].at = "started"
    /\ settings' = [settings EXCEPT !.pkce_verifier = f, !.pkce_state = f]
    /\ flow' = [flow EXCEPT ![f].at = "saving"]
    /\ UNCHANGED <<isMobile, unloaded, authorizationInProgress, authorizationPromise,
                   mobileAuthResolver, mobileAuthRejecter, mobileAuthModal, caller,
                   handler, server_, exchanged, notAuth>>

\* The executor of the promise (main.ts:876-957, 990-1120): the mobile flow
\* stores its resolver and rejecter and opens the modal; the desktop flow
\* closes a listening server and starts its own.  Both arm a timeout.
FlowOpens(f) ==
    /\ flow[f].at = "saving"
    /\ flow' = [flow EXCEPT ![f].at = "pending", ![f].timer = TRUE]
    /\ IF flow[f].kind = "mobile"
       THEN /\ mobileAuthResolver' = f
            /\ mobileAuthRejecter' = f
            /\ mobileAuthModal' = f
            /\ UNCHANGED server_
       ELSE /\ server_' = f
            /\ UNCHANGED <<mobileAuthResolver, mobileAuthRejecter, mobileAuthModal>>
    /\ UNCHANGED <<isMobile, unloaded, authorizationInProgress, authorizationPromise,
                   settings, caller, handler, exchanged, notAuth>>

\* The timeout of flow f fires (main.ts:882-893, 995-1003).
Timeout(f) ==
    /\ flow[f].timer
    /\ IF flow[f].kind = "mobile"
       THEN /\ IF mobileAuthResolver # 0
               THEN /\ flow' = Settled([flow EXCEPT ![f].timer = FALSE],
                                       mobileAuthRejecter, "rejected")
                    /\ mobileAuthResolver' = 0
                    /\ mobileAuthRejecter' = 0
                    /\ mobileAuthModal' = 0
               ELSE /\ flow' = [flow EXCEPT ![f].timer = FALSE]
                    /\ UNCHANGED <<mobileAuthResolver, mobileAuthRejecter, mobileAuthModal>>
            /\ UNCHANGED server_
       ELSE /\ flow' = Settled(flow, f, "rejected")
            /\ server_' = 0
            /\ UNCHANGED <<mobileAuthResolver, mobileAuthRejecter, mobileAuthModal>>
    /\ UNCHANGED <<isMobile, unloaded, authorizationInProgress, authorizationPromise,
                   settings, caller, handler, exchanged, notAuth>>

\* The cancel button of the waiting modal (main.ts:941-948, 190-192); the
\* modal closes itself.
Cancel ==
    /\ mobileAuthModal # 0
    /\ flow' = Settled(flow, mobileAuthRejecter, "rejected")
    /\ mobileAuthResolver' = 0
    /\ mobileAuthRejecter' = 0
    /\ mobileAuthModal' = 0
    /\ UNCHANGED <<isMobile, unloaded, authorizationInProgress, authorizationPromise,
                   settings, caller, handler, server_, exchanged, notAuth>>

\* The parameters of a callback: state and code are 0 when absent.
CallbackParams == [state : 0..MaxFlows, error : BOOLEAN, code : 0..MaxFlows]

\* handleOAuthCallback up to `await this.exchangeCodeForTokens`
\* (main.ts:393-444).
HandleOAuthCallback(params) ==
    /\ ~unloaded
    /\ handler["callback"].at = "idle"
    /\ mobileAuthModal' = 0
    /\ IF params.error \/ params.state # settings.pkce_state \/ params.code = 0
       THEN /\ flow' = Settled(flow, mobileAuthRejecter, "rejected")
            /\ mobileAuthResolver' = 0
            /\ mobileAuthRejecter' = 0
            /\ UNCHANGED <<handler, exchanged>>
       ELSE /\ handler' = [handler EXCEPT !["callback"] =
                              [at |-> "exchanging", code |-> params.code,
                               verifier |-> settings.pkce_verifier, flow |-> 0]]
            /\ exchanged' = exchanged \cup
                   {[state |-> params.state, stored |-> settings.pkce_state,
                     pending |-> {f \in ActiveFlows : flow[f].kind = "mobile"}]}
            /\ UNCHANGED <<flow, mobileAuthResolver, mobileAuthRejecter>>
    /\ UNCHANGED <<isMobile, unloaded, authorizationInProgress, authorizationPromise,
                   settings, caller, server_, notAuth>>

\* handleOAuthCallback after the exchange (main.ts:444-468): with tokens the
\* PKCE values are deleted and the pending promise is resolved; a failed
\* exchange rejects it.  Google accepts a code with the verifier of its flow.
CallbackExchanged ==
    /\ handler["callback"].at = "exchanging"
    /\ handler' = [handler EXCEPT !["callback"] = NoExchange]
    /\ \/ /\ handler["callback"].code = handler["callback"].verifier
          /\ settings' = [settings EXCEPT !.pkce_verifier = 0, !.pkce_state = 0]
          /\ flow' = Settled(flow, mobileAuthResolver, "resolved")
       \/ /\ flow' = Settled(flow, mobileAuthRejecter, "rejected")
          /\ UNCHANGED settings
    /\ mobileAuthResolver' = 0
    /\ mobileAuthRejecter' = 0
    /\ UNCHANGED <<isMobile, unloaded, authorizationInProgress, authorizationPromise,
                   mobileAuthModal, caller, server_, exchanged, notAuth>>

\* A request for /oauth2callback at the server of flow f, up to the exchange
\* (main.ts:1010-1072).
ServerRequest(f, params) ==
    /\ server_ = f
    /\ handler["server"].at = "idle"
    /\ IF params.state # settings.pkce_state \/ params.error \/ params.code = 0
       THEN /\ flow' = Settled(flow, f, "rejected")
            /\ server_' = 0
            /\ UNCHANGED handler
       ELSE /\ flow' = [flow EXCEPT ![f].timer = FALSE]
            /\ handler' = [handler EXCEPT !["server"] =
                              [at |-> "exchanging", code |-> params.code,
                               verifier |-> settings.pkce_verifier, flow |-> f]]
            /\ UNCHANGED server_
    /\ UNCHANGED <<isMobile, unloaded, authorizationInProgress, authorizationPromise,
                   mobileAuthResolver, mobileAuthRejecter, mobileAuthModal, settings,
                   caller, exchanged, notAuth>>

\* The server's handler after the exchange (main.ts:1072-1104).
ServerExchanged ==
    /\ handler["server"].at = "exchanging"
    /\ handler' = [handler EXCEPT !["server"] = NoExchange]
    /\ server_' = 0
    /\ \/ /\ handler["server"].code = handler["server"].verifier
          /\ settings' = [settings EXCEPT !.pkce_verifier = 0, !.pkce_state = 0]
          /\ flow' = Settled(flow, handler["server"].flow, "resolved")
       \/ /\ flow' = Settled(flow, handler["server"].flow, "rejected")
          /\ UNCHANGED settings
    /\ UNCHANGED <<isMobile, unloaded, authorizationInProgress, authorizationPromise,
                   mobileAuthResolver, mobileAuthRejecter, mobileAuthModal, caller,
                   exchanged, notAuth>>

\* The caller resumes once the promise it awaits is settled.  The call that
\* started the flow runs the finally of getNewTokens (main.ts:844-847);
\* initializeGoogleAuth stores the tokens or returns false
\* (main.ts:1199-1221).
Resume(c) ==
    /\ caller[c].at = "await"
    /\ flow[caller[c].flow].at \in {"resolved", "rejected"}
    /\ IF caller[c].owner
       THEN /\ authorizationInProgress' = FALSE
            /\ authorizationPromise' = 0
       ELSE UNCHANGED <<authorizationInProgress, authorizationPromise>>
    /\ settings' = IF flow[caller[c].flow].at = "resolved"
                   THEN [settings EXCEPT !.access_token = caller[c].flow]
                   ELSE settings
    /\ caller' = [caller EXCEPT ![c].at = "done"]
    /\ UNCHANGED <<isMobile, unloaded, mobileAuthResolver, mobileAuthRejecter,
                   mobileAuthModal, flow, handler, server_, exchanged, notAuth>>

\* onunload (main.ts:489-511).
Onunload ==
    /\ ~unloaded
    /\ unloaded' = TRUE
    /\ authorizationInProgress' = FALSE
    /\ authorizationPromise' = 0
    /\ mobileAuthResolver' = 0
    /\ mobileAuthRejecter' = 0
    /\ mobileAuthModal' = 0
    /\ server_' = IF isMobile THEN server_ ELSE 0
    /\ UNCHANGED <<isMobile, settings, flow, caller, handler, exchanged, notAuth>>

NextAuth ==
    \/ \E c \in Callers : Call(c) \/ RefreshFailed(c) \/ Resume(c)
    \/ \E f \in FlowIds : FlowStoresPkce(f) \/ FlowOpens(f) \/ Timeout(f)
    \/ Cancel
    \/ \E params \in CallbackParams : HandleOAuthCallback(params)
    \/ CallbackExchanged
    \/ \E f \in FlowIds : \E params \in CallbackParams : ServerRequest(f, params)
    \/ ServerExchanged
    \/ Onunload

SpecAuth == InitAuth /\ [][NextAuth]_vars

\* C27: at most one authorization flow is active at any time: a getNewTokens
\* call made while a flow is in progress gets the promise of that flow and
\* starts no second one, and once the flow has settled and getNewTokens
\* has returned, authorizationInProgress is false and authorizationPromise
\* is null.
C27_OneFlowAtATime ==
    /\ Cardinality(ActiveFlows) <= 1
    /\ \A c \in Callers :
           (caller[c].at = "await" /\ ActiveFlows # {}) => caller[c].flow \in ActiveFlows
    /\ (ActiveFlows = {} /\ \A c \in Callers : ~(caller[c].at = "await" /\ caller[c].owner))
           => (~authorizationInProgress /\ authorizationPromise = 0)

\* The same while the plugin is loaded.
C27_WhileLoaded == ~unloaded => C27_OneFlowAtATime

\* C28: handleOAuthCallback calls exchangeCodeForTokens only when a flow
\* started by _performMobileAuthorization is pending and params.state is the
\* pkce_state generated for that flow; a callback with another state, or
\* when no flow is pending and pkce_state is unset, triggers no exchange.
C28_ExchangeOnlyForPendingFlow ==
    \A x \in exchanged : x.state \in x.pending

\* Every exchange handleOAuthCallback makes is for a callback whose state is
\* the stored one, be it undefined.
C28_StateIsTheStoredOne ==
    \A x \in exchanged : x.state = x.stored

----------------------------------------------------------------------------
(* The Nostr sync of src/main.ts: syncNostrArticles asks the relays for    *)
(* the long-form events of the followed authors through getNostrData of    *)
(* src/nostr.ts, which hands every event to processNostrArticle.  Each     *)
(* await is a point where the other calls run.                             *)

\* settings.filenameLength (main.ts:110)
filenameLength == 59

\* [<>:"/\\|?*], the characters formatFilename replaces
ForbiddenInFilename == {"<", ">", ":", "\"", "/", "\\", "|", "?", "*"}

UntitledArticle == <<"U", "n", "t", "i", "t", "l", "e", "d", " ", "A", "r", "t", "i", "c", "l", "e">>

\* formatFilename (main.ts:556-566)
formatFilename(name) ==
    LET sanitizedTitle ==
            Trim([i \in 1..Len(name) |->
                     IF name[i] \in ForbiddenInFilename THEN "-" ELSE name[i]])
    IN  IF Len(sanitizedTitle) > filenameLength + 3
        THEN SubSeq(sanitizedTitle, 1, filenameLength) \o <<".", ".", ".">>
        ELSE sanitizedTitle

\* article.parsed.title || 'Untitled Article', sanitized (main.ts:695-698)
filenameOf(title) == formatFilename(IF title = <<>> THEN UntitledArticle ELSE title)

\* The titles of the events the relays hold.
ArticleTitles == {<<>>, <<"a", "?">>, <<"a", "-">>, <<" ", "b">>}

\* How many events a query returns at most.
MaxArticles == 2
Articles == 1..MaxArticles

\* The last second of the clock.
MaxClock == 2

Filenames == {filenameOf(t) : t \in ArticleTitles}

\* What the Nostr sync leaves alone.
notNostr == <<convVars, fnVars, authVars>>

NoArticle == [at |-> "none", title |-> <<>>]

InitNostr ==
    /\ ConvIdle
    /\ FnIdle
    /\ AuthIdle
    /\ nostrLastSyncTime = 0
    /\ clock = 1
    /\ vault \in {{}, {filenameOf(<<" ", "b">>)}}
    /\ run = [at |-> "idle", since |-> 0, existingFiles |-> {}]
    /\ query = [at |-> "none", since |-> 0]
    /\ article = [a \in Articles |-> NoArticle]
    /\ creates = [n \in Filenames |-> 0]

\* Date.now() moves on.
Tick ==
    /\ clock < MaxClock
    /\ clock' = clock + 1
    /\ UNCHANGED <<nostrLastSyncTime, vault, run, query, article, creates, notNostr>>

\* main.ts:623-646: a run starts and awaits ensureFolderExists.  A run starts
\* when the run before it, its query and its articles are through.
SyncStart ==
    /\ run.at \in {"idle", "done"}
    /\ query.at # "pending"
    /\ \A a \in Articles : article[a].at \in {"none", "done"}
    /\ run' = [at |-> "folder", since |-> run.since, existingFiles |-> {}]
    /\ query' = [at |-> "none", since |-> 0]
    /\ article' = [a \in Articles |-> NoArticle]
    /\ creates' = [n \in Filenames |-> 0]
    /\ UNCHANGED <<nostrLastSyncTime, clock, vault, notNostr>>

\* main.ts:649-681: existingFiles is read off the folder, getNostrData is
\* called and not awaited, nostrLastSyncTime is set and saveSettings awaited.
SyncQuery ==
    /\ run.at = "folder"
    /\ run' = [at |-> "saving", since |-> nostrLastSyncTime, existingFiles |-> vault]
    /\ query' = [at |-> "pending", since |-> nostrLastSyncTime]
    /\ nostrLastSyncTime' = clock
    /\ UNCHANGED <<clock, vault, article, creates, notNostr>>

\* main.ts:681-690: saveSettings is through.
SyncDone ==
    /\ run.at = "saving"
    /\ run' = [run EXCEPT !.at = "done"]
    /\ UNCHANGED <<nostrLastSyncTime, clock, vault, query, article, creates, notNostr>>

\* nostr.ts:47-89: the subscription ends with n events; each is handed to
\* processNote, and every processNostrArticle runs up to its first await,
\* that of formatFilename (main.ts:697).
QueryReturns ==
    /\ query.at = "pending"
    /\ \E n \in 0..MaxArticles :
           \E titles \in [1..n -> ArticleTitles] :
               article' = [a \in Articles |->
                              IF a <= n THEN [at |-> "format", title |-> titles[a]]
                              ELSE NoArticle]
    /\ query' = [query EXCEPT !.at = "ok"]
    /\ UNCHANGED <<nostrLastSyncTime, clock, vault, run, creates, notNostr>>

\* nostr.ts:90-92: the query throws; nothing awaits its promise.
QueryFails ==
    /\ query.at = "pending"
    /\ query' = [query EXCEPT !.at = "failed"]
    /\ UNCHANGED <<nostrLastSyncTime, clock, vault, run, article, creates, notNostr>>

\* main.ts:697-707: after formatFilename, the look-up in existingFiles and
\* the call of app.vault.create, which is awaited.
ArticleCheck(a) ==
    /\ article[a].at = "format"
    /\ LET filename == filenameOf(article[a].title)
       IN  IF filename \in run.existingFiles
           THEN /\ article' = [article EXCEPT ![a].at = "done"]
                /\ UNCHANGED creates
           ELSE /\ article' = [article EXCEPT ![a].at = "creating"]
                /\ creates' = [creates EXCEPT ![filename] = @ + 1]
    /\ UNCHANGED <<nostrLastSyncTime, clock, vault, run, query, notNostr>>

\* main.ts:707-715: app.vault.create is through: the file is there and its
\* name is added to existingFiles, or it threw because the file exists.
ArticleCreated(a) ==
    /\ article[a].at = "creating"
    /\ LET filename == filenameOf(article[a].title)
       IN  IF filename \in vault
           THEN UNCHANGED <<vault, run>>
           ELSE /\ vault' = vault \cup {filename}
                /\ run' = [run EXCEPT !.existingFiles = @ \cup {filename}]
    /\ article' = [article EXCEPT ![a].at = "done"]
    /\ UNCHANGED <<nostrLastSyncTime, clock, query, creates, notNostr>>

NextNostr ==
    \/ Tick
    \/ SyncStart
    \/ SyncQuery
    \/ SyncDone
    \/ QueryReturns
    \/ QueryFails
    \/ \E a \in Articles : ArticleCheck(a) \/ ArticleCreated(a)

SpecNostr == InitNostr /\ [][NextNostr]_vars

\* C29: within one run of syncNostrArticles app.vault.create is called at
\* most once per filename: of two fetched articles whose sanitized titles
\* are equal, whatever the interleaving of their processNostrArticle calls,
\* the second finds the filename in existingFiles and creates no file.
C29_CreateOncePerName == \A n \in Filenames : creates[n] <= 1

\* The same for a run whose events have different filenames.
C29_DifferentNames ==
    (\A a, b \in Articles :
        (a # b /\ article[a].at # "none" /\ article[b].at # "none")
            => filenameOf(article[a].title) # filenameOf(article[b].title))
        => C29_CreateOncePerName

\* C30: syncNostrArticles advances settings.nostrLastSyncTime only after the
\* relay query of that run has completed without error: while the query has
\* not returned, and after it failed, the time is the one the run started
\* with, which stays the 'since' of the next run.
C30_AdvanceAfterQuery ==
    (run.at \in {"saving", "done"} /\ query.at # "ok")
        => nostrLastSyncTime = run.since

\* The query of a run is asked with the time the run started with.
C30_SinceOfRun ==
    run.at \in {"saving", "done"} => query.since = run.since

====
